---- MODULE Spec2Model ----
(***************************************************************************)
(* A model of tools/lint.py, the convention linter of MessyerRaytracer:    *)
(* the rule checks, the suppression resolver (lint_file), the engine       *)
(* (run_lint) and the command-line driver (main).                          *)
(*                                                                         *)
(* Text is modelled by what the code reads from it.  An identifier is a    *)
(* sequence of one-character strings, a rule id or suppression token is    *)
(* the sequence of its '/'-separated segments, and a source line is a      *)
(* record of the lexical facts the regular expressions of lint.py extract  *)
(* from it (see Line below).                                               *)
(***************************************************************************)
EXTENDS Integers, Sequences, FiniteSets, TLC

VARIABLES
    pc,              \* position of main(): "main", "validate", "run_lint", "loop", "exit"
    argv,            \* parsed command line: [files, rule]
    tree,            \* files on disk under src/ and project/demos/, in rglob order
    conf,            \* tools/lint.conf: [exists, lines]
    files,           \* main's `files`, the result of find_source_files
    file_suppressions, \* run_lint's table loaded from lint.conf
    idx,             \* run_lint's loop position in `files` (1-based, next file)
    stats,           \* run_lint's LintStats
    results,         \* what each lint_file call returned, with its raw violations
    exit_status,     \* status of the process, NoStatus while it runs
    log              \* the steps taken so far, in order

vars == <<pc, argv, tree, conf, files, file_suppressions, idx, stats, results,
          exit_status, log>>

----------------------------------------------------------------------------
(* Bounds of the model.                                                    *)

\* longest list of files given to one run
MaxFiles == 2
\* longest generated file, in lines
MaxLines == 3
\* lines between the definition line of a function and its closing brace
MaxBody == 5

----------------------------------------------------------------------------
(* Sequences and strings.                                                  *)

\* str.startswith
StartsWith(s, p) == Len(p) <= Len(s) /\ SubSeq(s, 1, Len(p)) = p

\* all sequences over S of length 0..n
RECURSIVE SeqsUpTo(_, _)
SeqsUpTo(S, n) ==
    IF n = 0 THEN {<<>>}
    ELSE LET shorter == SeqsUpTo(S, n - 1)
         IN  shorter \cup {Append(s, x) : s \in {t \in shorter : Len(t) = n - 1}, x \in S}

\* concatenation of a sequence of sequences
RECURSIVE Flatten(_)
Flatten(ss) == IF ss = <<>> THEN <<>> ELSE Head(ss) \o Flatten(Tail(ss))

UpperCase == {"A", "B", "C", "D", "E", "F", "G", "H", "I", "J", "K", "L", "M",
              "N", "O", "P", "Q", "R", "S", "T", "U", "V", "W", "X", "Y", "Z"}
LowerCase == {"a", "b", "c", "d", "e", "f", "g", "h", "i", "j", "k", "l", "m",
              "n", "o", "p", "q", "r", "s", "t", "u", "v", "w", "x", "y", "z"}
Digits == {"0", "1", "2", "3", "4", "5", "6", "7", "8", "9"}

----------------------------------------------------------------------------
(* Rule identifiers and suppression tokens.                                *)

RULE_PRAGMA_ONCE      == <<"header", "pragma-once">>
RULE_DESCRIPTION      == <<"header", "description">>
RULE_ASSERT_DENSITY   == <<"tiger", "assertion-density">>
RULE_GPU_ASSERT       == <<"gpu", "static-assert">>
RULE_MODULE_BOUNDARY  == <<"module", "boundary">>
RULE_CLASS_PASCAL     == <<"naming", "class-pascal">>
RULE_HARDCODED        == <<"godot-native", "hardcoded-scene-val">>
RULE_PARALLEL_STATE   == <<"godot-native", "parallel-state-cpp">>

\* v.rule.split("/")[0], as the string it is compared with
FamilyPrefix(rule) == <<rule[1]>>

\* the dataclass Violation
Violation(file, line, rule, message, severity) ==
    [file |-> file, line |-> line, rule |-> rule, message |-> message,
     severity |-> severity]

----------------------------------------------------------------------------
(* Paths.  A project-relative path, '/'-separated, is the directory        *)
(* segments dir, then stem + ext: <<"src", "modules">>, "m", ".cpp" is     *)
(* src/modules/m.cpp.  The stem is a character sequence without '/' or '.'.*)

RelPath(dir, stem, ext) == [dir |-> dir, stem |-> stem, ext |-> ext]

ExtChars(ext) ==
    CASE ext = ".h"   -> <<".", "h">>
      [] ext = ".gen.h" -> <<".", "g", "e", "n", ".", "h">>
      [] ext = ".cpp" -> <<".", "c", "p", "p">>
      [] ext = ".gd"  -> <<".", "g", "d">>
      [] OTHER        -> <<".", "t", "x", "t">>

\* path.endswith(".h"), path.endswith(".cpp")
EndsWithH(path) == path.ext \in {".h", ".gen.h"}
EndsWithCpp(path) == path.ext = ".cpp"
IsCppSource(path) == EndsWithH(path) \/ EndsWithCpp(path)

\* Path(path).name
FileName(path) == path.stem \o ExtChars(path.ext)
\* filename.replace(".h", "")
FileStem(path) ==
    CASE path.ext = ".h"     -> path.stem
      [] path.ext = ".gen.h" -> path.stem \o <<".", "g", "e", "n">>
      [] OTHER               -> FileName(path)

----------------------------------------------------------------------------
(* Lines.  A source line is the record of what the patterns of lint.py     *)
(* read from it:                                                           *)
(*   kind    the shape of the text, before any trailing marker comment:    *)
(*     "pragma"   #pragma once                                             *)
(*     "desc"     // <name> -- description                                 *)
(*     "comment"  // <words and punctuation>                               *)
(*     "code"     <words and punctuation>; the empty line when it has none *)
(*     "func"     <type> <name>(<params>) <punct[1]> <words> <punct[2..]>  *)
(*     "struct"   struct <name> <punctuation>      (": Base" before the    *)
(*     "class"    class <name> <punctuation>        brace when words = 1)  *)
(*     "sizeof"   static_assert(sizeof(<name>) == N);                      *)
(*     "include"  one #include "<target>" per element of words             *)
(*   name    the identifier the line names, as characters                  *)
(*   words   the words (maximal \w+ runs) of a code or comment line, or    *)
(*           those after the signature on a "func" line                    *)
(*   punct   the '{', '}', ';' and '=' characters of the line, in order    *)
(*   marker  the inline suppression comment at the end of the line, if any *)
(***************************************************************************)

NoMarker == [style |-> "none", tok |-> <<>>]
\* <style> rt-lint: suppress <tok>, style "//" or "#"
Marker(style, tok) == [style |-> style, tok |-> tok]

Line(kind, name, words, punct) ==
    [kind |-> kind, name |-> name, words |-> words, punct |-> punct,
     marker |-> NoMarker]

\* the line with a suppression comment written at its end
WithMarker(l, m) == [l EXCEPT !.marker = m]

\* _SUPPRESS_RE.search(line) matches
HasMarker(l) == l.marker.style \in {"//", "#"}

\* line.strip() == "#pragma once"
IsPragmaOnce(l) == l.kind = "pragma" /\ ~HasMarker(l)

\* line.strip().startswith("// " + prefix): the text after "// " is the name
\* followed by a space
DescStartsWith(l, prefix) ==
    l.kind = "desc" /\ StartsWith(l.name \o <<" ">>, prefix)

\* the characters c of the line's punctuation, in order
PunctOf(l, cs) == SelectSeq(l.punct, LAMBDA c : c \in cs)

\* the '{' and '}' of the line
BraceChars(l) == PunctOf(l, {"{", "}"})

\* line.count(c)
CountChar(l, c) == Len(PunctOf(l, {c}))

\* the line ends with ';' (then optional blanks)
EndsWithSemicolon(l) ==
    l.punct # <<>> /\ l.punct[Len(l.punct)] = ";" /\ ~HasMarker(l)

\* '#' occurs in the line
HasHash(l) == l.kind \in {"pragma", "include"} \/ l.marker.style = "#"

\* stripped.startswith("//") (or "/*" or "*")
IsCommentLine(l) ==
    \/ l.kind \in {"desc", "comment"}
    \/ l.kind = "code" /\ l.words = <<>> /\ l.punct = <<>> /\ l.marker.style = "//"

\* the words a pattern can find on the line
WordsOf(l) == IF l.kind \in {"code", "comment", "func"} THEN l.words ELSE <<>>

----------------------------------------------------------------------------
(* header/ -- file header conventions                                      *)

\* a variant of check_header_pragma_once without the test for an empty file
check_header_pragma_once_nonempty(path, lines) ==
    IF ~EndsWithH(path) THEN <<>>
    ELSE IF lines # <<>> /\ ~IsPragmaOnce(lines[1])
         THEN <<Violation(path, 1, RULE_PRAGMA_ONCE, <<"pragma">>, "error")>>
         ELSE <<>>

check_header_pragma_once(path, lines) ==
    IF ~EndsWithH(path) THEN <<>>
    ELSE IF lines = <<>> \/ ~IsPragmaOnce(lines[1])
         THEN <<Violation(path, 1, RULE_PRAGMA_ONCE, <<"pragma">>, "error")>>
         ELSE <<>>

check_header_description(path, lines) ==
    IF ~EndsWithH(path) THEN <<>>
    ELSE IF Len(lines) < 2
         THEN <<Violation(path, 2, RULE_DESCRIPTION, <<"missing">>, "error")>>
         ELSE IF ~(\/ DescStartsWith(lines[2], FileName(path))
                   \/ DescStartsWith(lines[2], FileStem(path)))
              THEN <<Violation(path, 2, RULE_DESCRIPTION,
                               <<"expected", FileName(path)>>, "error")>>
              ELSE <<>>

----------------------------------------------------------------------------
(* tiger/ -- assertion density                                             *)

MIN_FUNCTION_BODY_LINES == 5

\* words _ASSERT_RE matches: \bRT_(ASSERT|VERIFY|SLOW_ASSERT|UNREACHABLE)\w*
AssertWords == {"RT_ASSERT", "RT_VERIFY", "RT_SLOW_ASSERT", "RT_UNREACHABLE",
                "RT_ASSERT_FINITE", "RT_ASSERT_BOUNDS", "RT_VERIFY_OK"}

\* _ASSERT_RE.search(line)
AssertMatch(l) == \E k \in 1..Len(WordsOf(l)) : WordsOf(l)[k] \in AssertWords

\* _FUNC_DEF_RE.match(line): a signature, then '{' at once, on a line that
\* neither ends with ';' nor holds a '#'
FuncDefMatch(l) ==
    /\ l.kind = "func"
    /\ l.punct # <<>> /\ l.punct[1] = "{"
    /\ ~EndsWithSemicolon(l)
    /\ ~HasHash(l)

_CPP_KEYWORDS == {
    <<"i", "f">>,
    <<"e", "l", "s", "e">>,
    <<"f", "o", "r">>,
    <<"w", "h", "i", "l", "e">>,
    <<"d", "o">>,
    <<"s", "w", "i", "t", "c", "h">>,
    <<"c", "a", "s", "e">>,
    <<"d", "e", "f", "a", "u", "l", "t">>,
    <<"r", "e", "t", "u", "r", "n">>,
    <<"b", "r", "e", "a", "k">>,
    <<"c", "o", "n", "t", "i", "n", "u", "e">>,
    <<"g", "o", "t", "o">>,
    <<"c", "a", "t", "c", "h">>,
    <<"t", "h", "r", "o", "w">>,
    <<"t", "r", "y">>,
    <<"n", "e", "w">>,
    <<"d", "e", "l", "e", "t", "e">>,
    <<"s", "i", "z", "e", "o", "f">>,
    <<"a", "l", "i", "g", "n", "o", "f">>,
    <<"d", "e", "c", "l", "t", "y", "p", "e">>,
    <<"t", "y", "p", "e", "i", "d">>,
    <<"s", "t", "a", "t", "i", "c", "_", "a", "s", "s", "e", "r", "t">>,
    <<"s", "t", "a", "t", "i", "c", "_", "c", "a", "s", "t">>,
    <<"d", "y", "n", "a", "m", "i", "c", "_", "c", "a", "s", "t">>,
    <<"c", "o", "n", "s", "t", "_", "c", "a", "s", "t">>,
    <<"r", "e", "i", "n", "t", "e", "r", "p", "r", "e", "t", "_", "c", "a", "s", "t">>,
    <<"c", "o", "_", "a", "w", "a", "i", "t">>,
    <<"c", "o", "_", "r", "e", "t", "u", "r", "n">>,
    <<"c", "o", "_", "y", "i", "e", "l", "d">>}

_TRIVIAL_PREFIXES == <<
    <<"g", "e", "t", "_">>,
    <<"s", "e", "t", "_">>,
    <<"i", "s", "_">>,
    <<"h", "a", "s", "_">>,
    <<"_", "b", "i", "n", "d", "_", "m", "e", "t", "h", "o", "d", "s">>,
    <<"o", "p", "e", "r", "a", "t", "o", "r">>,
    <<"_", "n", "o", "t", "i", "f", "i", "c", "a", "t", "i", "o", "n">>>>

\* func_name.split("::")[-1]
Unqualified(name) ==
    LET seps == {i \in 2..Len(name) : name[i - 1] = ":" /\ name[i] = ":"}
    IN  IF seps = {} THEN name
        ELSE LET last == CHOOSE i \in seps : \A k \in seps : k <= i
             IN  SubSeq(name, last + 1, Len(name))

IsTrivialName(unqualified) ==
    \E k \in 1..Len(_TRIVIAL_PREFIXES) : StartsWith(unqualified, _TRIVIAL_PREFIXES[k])

\* a variant of lines 242-247 that takes the depth to be 1 for the opening
\* brace without reading the braces of the definition line
DefLineDepthOne(chars, depth) == 1

\* the depth after every brace of the definition line (lines 242-247)
RECURSIVE DefLineDepth(_, _)
DefLineDepth(chars, depth) ==
    IF chars = <<>> THEN depth
    ELSE DefLineDepth(Tail(chars),
                      IF Head(chars) = "{" THEN depth + 1 ELSE depth - 1)

\* a variant of lines 257-263 that counts every brace of a body line and
\* looks at the depth at the end of the line only
BodyLineDepthNet(chars, depth) ==
    depth + Len(SelectSeq(chars, LAMBDA c : c = "{"))
          - Len(SelectSeq(chars, LAMBDA c : c = "}"))

\* the depth after a body line; the scan of the line stops where the depth
\* returns to zero (lines 257-263)
RECURSIVE BodyLineDepth(_, _)
BodyLineDepth(chars, depth) ==
    IF chars = <<>> THEN depth
    ELSE IF Head(chars) = "{" THEN BodyLineDepth(Tail(chars), depth + 1)
         ELSE IF depth - 1 = 0 THEN 0
              ELSE BodyLineDepth(Tail(chars), depth - 1)

\* a variant of the while loop of lines 256-264 without the test
\* j < len(lines): an open body runs to one line past the last
FindBodyEndPast(lines, j, brace_depth) ==
    IF brace_depth > 0 THEN Len(lines) + 1 ELSE j

\* the while loop of lines 256-264 from 0-based line j: the j it ends with
RECURSIVE FindBodyEnd(_, _, _)
FindBodyEnd(lines, j, brace_depth) ==
    IF j < Len(lines) /\ brace_depth > 0
    THEN FindBodyEnd(lines, j + 1, BodyLineDepth(BraceChars(lines[j + 1]), brace_depth))
    ELSE j

\* the number of lines k in range(body_start, min(body_end, len(lines)))
\* that hold an assertion macro (lines 273-276)
AssertCount(lines, body_start, body_end) ==
    LET stop == IF body_end < Len(lines) THEN body_end ELSE Len(lines)
    IN  Cardinality({k \in body_start..(stop - 1) : AssertMatch(lines[k + 1])})

\* the outer loop of check_tiger_assertion_density from 0-based line i
RECURSIVE TigerScan(_, _, _, _)
TigerScan(path, lines, i, violations) ==
    IF ~(i < Len(lines)) THEN violations
    ELSE
      LET l == lines[i + 1]
          func_name == l.name
          unqualified == Unqualified(func_name)
          brace_depth == DefLineDepth(BraceChars(l), 0)
          body_start == i + 1
          body_end == FindBodyEnd(lines, body_start, brace_depth)
          body_lines == body_end - body_start
          assert_count == AssertCount(lines, body_start, body_end)
      IN  IF ~FuncDefMatch(l) THEN TigerScan(path, lines, i + 1, violations)
          ELSE IF unqualified \in _CPP_KEYWORDS
               THEN TigerScan(path, lines, i + 1, violations)
          ELSE IF IsTrivialName(unqualified)
               THEN TigerScan(path, lines, i + 1, violations)
          ELSE IF brace_depth <= 0
               THEN TigerScan(path, lines, i + 1, violations)
          ELSE IF body_lines < MIN_FUNCTION_BODY_LINES
               THEN TigerScan(path, lines, body_end, violations)
          ELSE IF assert_count < 2
               THEN TigerScan(path, lines, body_end,
                      Append(violations,
                             Violation(path, i + 1, RULE_ASSERT_DENSITY,
                                       <<func_name, assert_count, body_lines>>,
                                       "warning")))
          ELSE TigerScan(path, lines, body_end, violations)

check_tiger_assertion_density(path, lines) ==
    IF ~IsCppSource(path) THEN <<>> ELSE TigerScan(path, lines, 0, <<>>)

\* the value of i after one iteration of the outer loop started at 0-based
\* line i: i + 1 (lines 220, 228, 235, 251) or body_end (lines 269, 285)
TigerStep(lines, i) ==
    LET l == lines[i + 1]
        unqualified == Unqualified(l.name)
        brace_depth == DefLineDepth(BraceChars(l), 0)
    IN  IF ~FuncDefMatch(l) \/ unqualified \in _CPP_KEYWORDS
           \/ IsTrivialName(unqualified) \/ brace_depth <= 0
        THEN i + 1
        ELSE FindBodyEnd(lines, i + 1, brace_depth)


----------------------------------------------------------------------------
(* gpu/ -- GPU struct rules                                                *)

GPUChars == <<"G", "P", "U">>
PackedChars == <<"P", "a", "c", "k", "e", "d">>

\* the identifier matches GPU\w+Packed as a whole word
IsGpuPackedName(name) ==
    /\ Len(name) >= Len(GPUChars) + 1 + Len(PackedChars)
    /\ StartsWith(name, GPUChars)
    /\ SubSeq(name, Len(name) - Len(PackedChars) + 1, Len(name)) = PackedChars

\* full_text as the pattern of line 294 reads it: per line, the text
\* "struct <GPU...Packed name>" if the line holds it, then the line's ';'
\* and '{', each with its 1-based line
RECURSIVE GpuText(_, _)
GpuText(lines, p) ==
    IF p > Len(lines) THEN <<>>
    ELSE LET l == lines[p]
             decl == IF l.kind = "struct" /\ IsGpuPackedName(l.name)
                     THEN <<[t |-> "struct", name |-> l.name, line |-> p]>>
                     ELSE <<>>
             cs == PunctOf(l, {";", "{"})
             punct == [k \in 1..Len(cs) |-> [t |-> cs[k], name |-> <<>>, line |-> p]]
         IN  decl \o punct \o GpuText(lines, p + 1)

\* where "[^;]*\{" ends when started after position s of the text: the last
\* '{' before the next ';', 0 if there is none
GpuMatchEnd(text, s) ==
    LET semis == {k \in (s + 1)..Len(text) : text[k].t = ";"}
        stop == IF semis = {} THEN Len(text) + 1
                ELSE CHOOSE k \in semis : \A j \in semis : k <= j
        opens == {k \in (s + 1)..(stop - 1) : text[k].t = "{"}
    IN  IF opens = {} THEN 0 ELSE CHOOSE k \in opens : \A j \in opens : j <= k

\* f"static_assert(sizeof({struct_name})" in full_text
HasSizeofAssert(lines, struct_name) ==
    \E p \in 1..Len(lines) : lines[p].kind = "sizeof" /\ lines[p].name = struct_name

\* _GPU_STRUCT_DEF_RE.finditer(full_text) from position s, and the loop body
RECURSIVE GpuScan(_, _, _, _, _)
GpuScan(path, lines, text, s, violations) ==
    IF s > Len(text) THEN violations
    ELSE IF text[s].t # "struct" THEN GpuScan(path, lines, text, s + 1, violations)
    ELSE LET e == GpuMatchEnd(text, s)
             struct_name == text[s].name
         IN  IF e = 0 THEN GpuScan(path, lines, text, s + 1, violations)
             ELSE IF ~HasSizeofAssert(lines, struct_name)
                  THEN GpuScan(path, lines, text, e + 1,
                         Append(violations,
                                Violation(path, text[s].line, RULE_GPU_ASSERT,
                                          <<struct_name>>, "error")))
                  ELSE GpuScan(path, lines, text, e + 1, violations)

check_gpu_static_assert(path, lines) ==
    IF ~IsCppSource(path) THEN <<>>
    ELSE GpuScan(path, lines, GpuText(lines, 1), 1, <<>>)

----------------------------------------------------------------------------
(* module/ -- module dependency boundary                                   *)

\* "modules/" in path.replace("\\", "/"): a directory segment ends in "modules"
HasModulePrefix(path) ==
    \E k \in 1..Len(path.dir) : path.dir[k] \in {"modules", "submodules"}

\* the include targets each pattern of _FORBIDDEN_INCLUDES["modules/"] matches
_FORBIDDEN_INCLUDES == <<
    {"godot/x.h", "godot/y.h"},
    {"raytracer_server.h"},
    {"dispatch/thread_pool.h"},
    {"accel/bvh.h"}>>

\* pat.search(line)
IncludeMatch(pat, l) ==
    l.kind = "include" /\ \E k \in 1..Len(l.words) : l.words[k] \in pat

\* the inner loop of lines 337-342 for 1-based line p: one violation per
\* pattern that matches, in pattern order
ModuleOnLine(path, lines, p) ==
    LET hits == SelectSeq([k \in 1..Len(_FORBIDDEN_INCLUDES) |-> k],
                          LAMBDA k : IncludeMatch(_FORBIDDEN_INCLUDES[k], lines[p]))
    IN  [i \in 1..Len(hits) |->
            Violation(path, p, RULE_MODULE_BOUNDARY, <<"include", lines[p]>>, "error")]

check_module_boundary(path, lines) ==
    IF ~IsCppSource(path) THEN <<>>
    ELSE IF ~HasModulePrefix(path) THEN <<>>
    ELSE Flatten([p \in 1..Len(lines) |-> ModuleOnLine(path, lines, p)])

----------------------------------------------------------------------------
(* naming/ -- naming conventions                                           *)

\* _CLASS_DECL_RE.match(line): the name is followed by ':' or '{'
ClassDeclMatch(l) ==
    /\ l.kind \in {"struct", "class"}
    /\ \/ l.words # <<>>
       \/ l.punct # <<>> /\ l.punct[1] = "{"

\* _PASCAL_RE.match(name)
PascalMatch(name) ==
    /\ name # <<>>
    /\ name[1] \in UpperCase
    /\ \A k \in 2..Len(name) : name[k] \in UpperCase \cup LowerCase \cup Digits

_NAMING_EXEMPT == {
    <<"G", "D", "C", "L", "A", "S", "S">>,
    <<"V", "A", "R", "I", "A", "N", "T", "_", "E", "N", "U", "M", "_", "C", "A", "S", "T">>}

\* the body of the loop of lines 360-372 for 1-based line p
NamingOnLine(path, lines, p) ==
    LET l == lines[p]
        name == l.name
    IN  IF ~ClassDeclMatch(l) THEN <<>>
        ELSE IF StartsWith(name, <<"_">>) \/ name \in _NAMING_EXEMPT THEN <<>>
        ELSE IF ~PascalMatch(name)
             THEN <<Violation(path, p, RULE_CLASS_PASCAL, <<name>>, "error")>>
        ELSE <<>>

check_naming_class_pascal(path, lines) ==
    IF ~EndsWithH(path) THEN <<>>
    ELSE Flatten([p \in 1..Len(lines) |-> NamingOnLine(path, lines, p)])

----------------------------------------------------------------------------
(* godot-native/ -- parallel state                                         *)

\* (word the pattern \b<word>\b finds, Godot node type, what to read instead)
_GODOT_OWNED_MEMBERS == <<
    <<"sun_direction_", "DirectionalLight3D", "-transform.basis.get_column(2)">>,
    <<"sun_color_", "DirectionalLight3D", "get_color()">>,
    <<"sun_energy_", "DirectionalLight3D", "get_param(PARAM_ENERGY)">>,
    <<"sun_rotation_degrees_", "DirectionalLight3D", "rotation_degrees">>,
    <<"sun_shadows_", "DirectionalLight3D", "shadow_enabled">>,
    <<"sun_shadow_cascades_", "DirectionalLight3D", "directional_shadow_max_distance">>,
    <<"sun_shadow_max_distance_", "DirectionalLight3D", "directional_shadow_max_distance">>,
    <<"sky_top_color_", "ProceduralSkyMaterial", "sky_top_color">>,
    <<"sky_horizon_color_", "ProceduralSkyMaterial", "sky_horizon_color">>,
    <<"sky_bottom_color_", "ProceduralSkyMaterial", "ground_bottom_color">>,
    <<"sky_energy_", "Sky / Environment", "sky.sky_material.energy_multiplier">>,
    <<"ambient_color_", "Environment", "ambient_light_color">>,
    <<"ambient_energy_", "Environment", "ambient_light_energy">>,
    <<"tonemap_mode_", "Environment", "tonemap_mode">>,
    <<"tonemap_exposure_", "Environment", "tonemap_exposure">>,
    <<"tonemap_white_", "Environment", "tonemap_white">>,
    <<"ssr_enabled_", "Environment", "ssr_enabled">>,
    <<"ssr_max_steps_", "Environment", "ssr_max_steps">>,
    <<"ssr_fade_in_", "Environment", "ssr_fade_in">>,
    <<"ssr_fade_out_", "Environment", "ssr_fade_out">>,
    <<"ssr_depth_tolerance_", "Environment", "ssr_depth_tolerance">>,
    <<"ssao_enabled_", "Environment", "ssao_enabled">>,
    <<"ssao_radius_", "Environment", "ssao_radius">>,
    <<"ssao_intensity_", "Environment", "ssao_intensity">>,
    <<"ssil_enabled_", "Environment", "ssil_enabled">>,
    <<"ssil_radius_", "Environment", "ssil_radius">>,
    <<"ssil_intensity_", "Environment", "ssil_intensity">>,
    <<"glow_enabled_", "Environment", "glow_enabled">>,
    <<"glow_intensity_", "Environment", "glow_intensity">>,
    <<"glow_bloom_", "Environment", "glow_bloom">>,
    <<"fog_enabled_", "Environment", "fog_enabled">>,
    <<"fog_density_", "Environment", "fog_density">>,
    <<"fog_color_", "Environment", "fog_aerial_perspective">>,
    <<"dof_enabled_", "CameraAttributesPractical", "dof_blur_far_enabled">>,
    <<"dof_focus_distance_", "CameraAttributesPractical", "dof_blur_far_distance">>,
    <<"dof_blur_amount_", "CameraAttributesPractical", "dof_blur_amount">>,
    <<"auto_exposure_enabled_", "CameraAttributesPractical", "auto_exposure_enabled">>,
    <<"auto_exposure_scale_", "CameraAttributesPractical", "auto_exposure_scale">>,
    <<"auto_exposure_min_", "CameraAttributesPractical", "auto_exposure_min_sensitivity">>,
    <<"auto_exposure_max_", "CameraAttributesPractical", "auto_exposure_max_sensitivity">>,
    <<"gi_mode_", "Environment", "gi_mode (sdfgi/voxel_gi)">>,
    <<"sdfgi_cascades_", "Environment", "sdfgi_cascades">>,
    <<"sdfgi_min_cell_size_", "Environment", "sdfgi_min_cell_size">>,
    <<"sdfgi_use_occlusion_", "Environment", "sdfgi_use_occlusion">>,
    <<"depth_range_", "Camera3D", "get_far() - get_near()">>,
    <<"camera_fov_", "Camera3D", "get_fov()">>,
    <<"camera_near_", "Camera3D", "get_near()">>,
    <<"camera_far_", "Camera3D", "get_far()">>>>

_DATA_TRANSFER_STRUCTS == {
    <<"E", "n", "v", "i", "r", "o", "n", "m", "e", "n", "t", "D", "a", "t", "a">>,
    <<"L", "i", "g", "h", "t", "D", "a", "t", "a">>,
    <<"S", "c", "e", "n", "e", "S", "h", "a", "d", "e", "D", "a", "t", "a">>,
    <<"G", "P", "U", "R", "a", "y", "P", "a", "c", "k", "e", "d">>,
    <<"G", "P", "U", "T", "r", "i", "a", "n", "g", "l", "e", "P", "a", "c", "k", "e", "d">>,
    <<"G", "P", "U", "B", "V", "H", "N", "o", "d", "e", "P", "a", "c", "k", "e", "d">>,
    <<"G", "P", "U", "H", "i", "t", "R", "e", "s", "u", "l", "t", "P", "a", "c", "k", "e", "d">>,
    <<"G", "P", "U", "M", "a", "t", "e", "r", "i", "a", "l", "P", "a", "c", "k", "e", "d">>,
    <<"G", "P", "U", "L", "i", "g", "h", "t", "P", "a", "c", "k", "e", "d">>}

\* re.IGNORECASE on the names of _HARDCODED_SCENE_PATTERNS
CaseFold(w) ==
    CASE w = "sky_zenith"    -> "SKY_ZENITH"
      [] w = "sun_color"     -> "SUN_COLOR"
      [] w = "ambient_color" -> "AMBIENT_COLOR"
      [] w = "depth_range"   -> "DEPTH_RANGE"
      [] OTHER               -> w

\* a word `first` and, after it, a word among names
WordThenName(ws, first, names) ==
    \E i \in 1..Len(ws) : \E j \in (i + 1)..Len(ws) :
        ws[i] = first /\ CaseFold(ws[j]) \in names

\* "static", then "const" or "constexpr", then later a word among names
StaticConstThenName(ws, names) ==
    \E i \in 1..Len(ws) : \E j \in (i + 2)..Len(ws) :
        /\ ws[i] = "static"
        /\ ws[i + 1] \in {"const", "constexpr"}
        /\ CaseFold(ws[j]) \in names

\* pat.search(line) for the k-th entry of _HARDCODED_SCENE_PATTERNS
HardcodedMatch(k, l) ==
    CASE k = 1 -> WordThenName(WordsOf(l), "constexpr",
                    {"SKY_ZENITH", "SKY_HORIZON", "SKY_GROUND", "SUN_DIR", "SUN_COLOR"})
      [] k = 2 -> StaticConstThenName(WordsOf(l), {"AMBIENT_COLOR", "AMBIENT_ENERGY"})
      [] OTHER -> WordThenName(WordsOf(l), "constexpr", {"DEPTH_RANGE"})

_HARDCODED_SCENE_PATTERNS == <<"sky/sun", "ambient", "depth-range">>

\* pat.search(line) for an entry of _GODOT_OWNED_MEMBERS
OwnedMemberMatch(entry, l) ==
    \E k \in 1..Len(WordsOf(l)) : WordsOf(l)[k] = entry[1]

\* words of the model's lines that hold no '_'
PlainWords == {"float", "int", "static", "const", "constexpr", "x", "y"}

\* "_" in line
HasUnderscore(l) ==
    \/ \E k \in 1..Len(WordsOf(l)) : WordsOf(l)[k] \notin PlainWords
    \/ \E k \in 1..Len(l.name) : l.name[k] = "_"

\* the violations of lines 521-525 for one line: one per pattern that
\* matches, in pattern order
HardcodedOnLine(path, p, l) ==
    LET hits == SelectSeq([k \in 1..Len(_HARDCODED_SCENE_PATTERNS) |-> k],
                          LAMBDA k : HardcodedMatch(k, l))
    IN  [i \in 1..Len(hits) |->
            Violation(path, p, RULE_HARDCODED,
                      <<_HARDCODED_SCENE_PATTERNS[hits[i]]>>, "error")]

\* the violations of lines 529-538 for one line: one per pattern that
\* matches, in pattern order
ParallelStateOnLine(path, p, l) ==
    LET hits == SelectSeq(_GODOT_OWNED_MEMBERS, LAMBDA entry : OwnedMemberMatch(entry, l))
    IN  [i \in 1..Len(hits) |->
            Violation(path, p, RULE_PARALLEL_STATE, hits[i], "warning")]

NoStruct == <<>>

\* the loop of lines 497-538 from 1-based line p
RECURSIVE GodotScan(_, _, _, _, _, _)
GodotScan(path, lines, p, current_struct, struct_depth, violations) ==
    IF p > Len(lines) THEN violations
    ELSE
      LET l == lines[p]
          struct_match == l.kind \in {"struct", "class"}
          struct1 == IF struct_match THEN l.name ELSE current_struct
          depth1 == (IF struct_match THEN 0 ELSE struct_depth)
                      + CountChar(l, "{") - CountChar(l, "}")
          struct2 == IF depth1 <= 0 THEN NoStruct ELSE struct1
          depth2 == IF depth1 <= 0 THEN 0 ELSE depth1
          hardcoded == HardcodedOnLine(path, p, l)
          parallel == IF HasUnderscore(l)
                         /\ (CountChar(l, ";") > 0 \/ CountChar(l, "=") > 0)
                      THEN ParallelStateOnLine(path, p, l)
                      ELSE <<>>
      IN  IF struct2 \in _DATA_TRANSFER_STRUCTS
          THEN GodotScan(path, lines, p + 1, struct2, depth2, violations)
          ELSE IF IsCommentLine(l)
               THEN GodotScan(path, lines, p + 1, struct2, depth2, violations)
          ELSE GodotScan(path, lines, p + 1, struct2, depth2,
                         violations \o hardcoded \o parallel)

check_godot_native_cpp(path, lines) ==
    IF ~IsCppSource(path) THEN <<>>
    ELSE GodotScan(path, lines, 1, NoStruct, 0, <<>>)

----------------------------------------------------------------------------
(* Rule registry                                                           *)

\* RULE_CHECKS, in the order of the dict: the family name as characters
\* and the names of its check functions
RULE_CHECKS == <<
    [family |-> <<"h", "e", "a", "d", "e", "r">>,
     checks |-> <<"check_header_pragma_once", "check_header_description">>],
    [family |-> <<"t", "i", "g", "e", "r">>,
     checks |-> <<"check_tiger_assertion_density">>],
    [family |-> <<"g", "p", "u">>,
     checks |-> <<"check_gpu_static_assert">>],
    [family |-> <<"m", "o", "d", "u", "l", "e">>,
     checks |-> <<"check_module_boundary">>],
    [family |-> <<"n", "a", "m", "i", "n", "g">>,
     checks |-> <<"check_naming_class_pascal">>],
    [family |-> <<"g", "o", "d", "o", "t", "-", "n", "a", "t", "i", "v", "e">>,
     checks |-> <<"check_godot_native_cpp">>]>>

\* RULE_CHECKS.keys()
RuleFamilies == {RULE_CHECKS[k].family : k \in 1..Len(RULE_CHECKS)}

\* check_fn(rel_path, lines)
CallCheck(check_fn, path, lines) ==
    CASE check_fn = "check_header_pragma_once"      -> check_header_pragma_once(path, lines)
      [] check_fn = "check_header_description"      -> check_header_description(path, lines)
      [] check_fn = "check_tiger_assertion_density" -> check_tiger_assertion_density(path, lines)
      [] check_fn = "check_gpu_static_assert"       -> check_gpu_static_assert(path, lines)
      [] check_fn = "check_module_boundary"         -> check_module_boundary(path, lines)
      [] check_fn = "check_naming_class_pascal"     -> check_naming_class_pascal(path, lines)
      [] OTHER                                      -> check_godot_native_cpp(path, lines)


----------------------------------------------------------------------------
(* Suppression configuration: tools/lint.conf                              *)
(* A line of the file is [kind, name, path, rules]:                        *)
(*   "section"  [<name>]                                                   *)
(*   "comment"  # ...          "blank"  the empty line                     *)
(*   "entry"    <path> = <rules[1]>, <rules[2]>, ...                       *)
(*   "other"    text without '='                                           *)
(* A rule token is its '/'-separated segments; <<>> is the empty string.   *)

ConfLine(kind, name, path, rules) ==
    [kind |-> kind, name |-> name, path |-> path, rules |-> rules]

\* line.lower() == "[suppress]"
IsSuppressSection(name) == name \in {"suppress", "Suppress", "SUPPRESS"}

\* a variant of line 139 that replaces the set of the path by the rule
AddRuleReplace(result, path_str, rule) ==
    [q \in DOMAIN result \cup {path_str} |->
        IF q = path_str THEN {rule} ELSE result[q]]

\* result.setdefault(path_str, set()).add(rule)
AddRule(result, path_str, rule) ==
    [q \in DOMAIN result \cup {path_str} |->
        (IF q \in DOMAIN result THEN result[q] ELSE {})
          \cup (IF q = path_str THEN {rule} ELSE {})]

\* the loop of lines 136-139 over rules_str.split(",")
RECURSIVE AddRules(_, _, _)
AddRules(result, path_str, rules) ==
    IF rules = <<>> THEN result
    ELSE AddRules(IF Head(rules) # <<>> THEN AddRule(result, path_str, Head(rules))
                  ELSE result,
                  path_str, Tail(rules))

\* the loop of lines 126-139
RECURSIVE LoadLines(_, _, _)
LoadLines(conf_lines, in_suppress, result) ==
    IF conf_lines = <<>> THEN result
    ELSE LET line == Head(conf_lines)
         IN  IF line.kind = "section"
             THEN LoadLines(Tail(conf_lines), IsSuppressSection(line.name), result)
             ELSE IF ~in_suppress \/ line.kind \in {"blank", "comment"}
                  THEN LoadLines(Tail(conf_lines), in_suppress, result)
             ELSE IF line.kind = "entry"
                  THEN LoadLines(Tail(conf_lines), in_suppress,
                                 AddRules(result, line.path, line.rules))
             ELSE LoadLines(Tail(conf_lines), in_suppress, result)

_load_file_suppressions(c) ==
    IF ~c.exists THEN <<>> ELSE LoadLines(c.lines, FALSE, <<>>)

----------------------------------------------------------------------------
(* Files.  [path, exists, under_root, readable, lines]: the path relative  *)
(* to the root (when under_root), whether the file exists, whether         *)
(* read_text succeeds, and the lines read.                                 *)

SourceFile(path, lines) ==
    [path |-> path, exists |-> TRUE, under_root |-> TRUE, readable |-> TRUE,
     lines |-> lines]

SKIP_DIRS == {"gen", "thirdparty", "godot-cpp", "__pycache__", ".git", "bin"}

\* the file is under root/src or root/project/demos (lines 589-593)
InScanDirs(f) ==
    \/ StartsWith(f.path.dir, <<"src">>)
    \/ StartsWith(f.path.dir, <<"project", "demos">>)

\* the filters of lines 594-603 on a file found by rglob; a generated file
\* has the extension ".gen.h" or ".gen.cpp"
IsLintable(f) ==
    /\ f.exists /\ f.under_root
    /\ InScanDirs(f)
    /\ \A k \in 1..Len(f.path.dir) : f.path.dir[k] \notin SKIP_DIRS
    /\ f.path.ext \in {".h", ".cpp", ".gd"}

find_source_files(on_disk, explicit_paths) ==
    IF explicit_paths # <<>>
    THEN SelectSeq(explicit_paths, LAMBDA f : f.exists)
    ELSE SelectSeq(on_disk, IsLintable)

----------------------------------------------------------------------------
(* Lint engine                                                             *)

\* rule_filter None (or absent)
NoneFilter == <<"None">>
\* `if rule_filter` is false: None or the empty string
IsFalsy(rule_filter) == rule_filter = NoneFilter \/ rule_filter = <<>>

\* a variant of inline_suppressions whose markers reach one line further
InlineSuppressionsWide(lines) ==
    [i \in 0..Len(lines) |->
        {lines[p].marker.tok :
            p \in {q \in 1..Len(lines) :
                     HasMarker(lines[q]) /\ (q - 1 = i \/ q = i \/ q + 1 = i)}}]

\* inline_suppressions (lines 632-639): 0-based line -> set of tokens
InlineSuppressions(lines) ==
    [i \in 0..Len(lines) |->
        {lines[p].marker.tok :
            p \in {q \in 1..Len(lines) : HasMarker(lines[q]) /\ (q - 1 = i \/ q = i)}}]

\* inline_suppressions.get(line_idx, set())
LineSupp(inline_suppressions, line_idx) ==
    IF line_idx \in DOMAIN inline_suppressions
    THEN inline_suppressions[line_idx] ELSE {}

\* a variant of the file-level lookup that ignores the path
FileRulesAnyPath(table, rel_path) ==
    UNION {table[q] : q \in DOMAIN table}

\* file_suppressions.get(rel_path, set())
FileRules(table, rel_path) ==
    IF rel_path \in DOMAIN table THEN table[rel_path] ELSE {}

\* a variant of the condition of lines 658-661 without the family prefix
IsSuppressedExact(v, line_supp, file_rules) ==
    \/ v.rule \in line_supp
    \/ v.rule \in file_rules

\* the condition of lines 658-661
IsSuppressed(v, line_supp, file_rules) ==
    \/ v.rule \in line_supp
    \/ FamilyPrefix(v.rule) \in line_supp
    \/ v.rule \in file_rules
    \/ FamilyPrefix(v.rule) \in file_rules

\* a variant of lines 649-650 that lets every family run
FamilyRunsAll(family, rule_filter) == TRUE

\* whether lines 649-650 let the family run
FamilyRuns(family, rule_filter) ==
    ~(~IsFalsy(rule_filter) /\ ~StartsWith(family, rule_filter))

\* the raw lists of every check that runs, in registry order (lines 648-652)
RawViolations(rel_path, lines, rule_filter) ==
    Flatten([k \in 1..Len(RULE_CHECKS) |->
        IF FamilyRuns(RULE_CHECKS[k].family, rule_filter)
        THEN Flatten([c \in 1..Len(RULE_CHECKS[k].checks) |->
                        CallCheck(RULE_CHECKS[k].checks[c], rel_path, lines)])
        ELSE <<>>])

\* a variant of the loop of lines 653-664 that sets the counter to 1 where
\* the code adds 1 to it
RECURSIVE ResolveFlag(_, _, _, _, _)
ResolveFlag(raw, inline_suppressions, file_rules, all_violations, suppressed) ==
    IF raw = <<>> THEN [violations |-> all_violations, suppressed |-> suppressed]
    ELSE LET v == Head(raw)
             line_supp == LineSupp(inline_suppressions, v.line - 1)
         IN  IF IsSuppressed(v, line_supp, file_rules)
             THEN ResolveFlag(Tail(raw), inline_suppressions, file_rules,
                              all_violations, 1)
             ELSE ResolveFlag(Tail(raw), inline_suppressions, file_rules,
                              Append(all_violations, v), suppressed)

\* the loop of lines 653-664 over the raw violations, in order
RECURSIVE Resolve(_, _, _, _, _)
Resolve(raw, inline_suppressions, file_rules, all_violations, suppressed) ==
    IF raw = <<>> THEN [violations |-> all_violations, suppressed |-> suppressed]
    ELSE LET v == Head(raw)
             line_idx == v.line - 1
             line_supp == LineSupp(inline_suppressions, line_idx)
         IN  IF IsSuppressed(v, line_supp, file_rules)
             THEN Resolve(Tail(raw), inline_suppressions, file_rules,
                          all_violations, suppressed + 1)
             ELSE Resolve(Tail(raw), inline_suppressions, file_rules,
                          Append(all_violations, v), suppressed)

\* what lint_file does when read_text raises OSError (lines 625-626)
ReadFailure(f) ==
    [raised |-> FALSE, read |-> FALSE, file |-> f, raw |-> <<>>,
     violations |-> <<>>, suppressed |-> 0]

\* path.relative_to(root) raises ValueError (line 629): nothing catches it
RelativeToFailure(f) ==
    [raised |-> TRUE, read |-> TRUE, file |-> f, raw |-> <<>>,
     violations |-> <<>>, suppressed |-> 0]

\* lint_file: what it returns (violations, suppressed), with the raw
\* violations of its checks, or that it raised
lint_file(f, rule_filter, table) ==
    IF ~f.readable THEN ReadFailure(f)
    ELSE IF ~f.under_root THEN RelativeToFailure(f)
    ELSE LET rel_path == f.path
             raw == RawViolations(rel_path, f.lines, rule_filter)
             out == Resolve(raw, InlineSuppressions(f.lines),
                            FileRules(table, rel_path), <<>>, 0)
         IN  [raised |-> FALSE, read |-> TRUE, file |-> f, raw |-> raw,
              violations |-> out.violations, suppressed |-> out.suppressed]

\* LintStats()
NewStats == [files_checked |-> 0, files_passed |-> 0, violations |-> <<>>,
             suppressed |-> 0]

\* LintStats.files_failed
files_failed(st) == st.files_checked - st.files_passed

\* LintStats.rule_counts: rule id -> number of violations with it
rule_counts(st) ==
    [rule \in {st.violations[i].rule : i \in 1..Len(st.violations)} |->
        Cardinality({i \in 1..Len(st.violations) : st.violations[i].rule = rule})]

\* a variant of the loop body of run_lint that puts a file's violations in
\* front of the list where the code extends the list
FoldResultFront(st, r) ==
    [files_checked |-> st.files_checked + 1,
     files_passed  |-> IF r.violations # <<>> THEN st.files_passed
                       ELSE st.files_passed + 1,
     violations    |-> IF r.violations # <<>> THEN r.violations \o st.violations
                       ELSE st.violations,
     suppressed    |-> st.suppressed + r.suppressed]

\* a variant of the loop body of run_lint that keeps the last file's
\* suppressed count where the code accumulates
FoldResultLast(st, r) ==
    [files_checked |-> st.files_checked + 1,
     files_passed  |-> IF r.violations # <<>> THEN st.files_passed
                       ELSE st.files_passed + 1,
     violations    |-> IF r.violations # <<>> THEN st.violations \o r.violations
                       ELSE st.violations,
     suppressed    |-> r.suppressed]

\* the body of the loop of run_lint for one file's result (lines 681-687)
FoldResult(st, r) ==
    [files_checked |-> st.files_checked + 1,
     files_passed  |-> IF r.violations # <<>> THEN st.files_passed
                       ELSE st.files_passed + 1,
     violations    |-> IF r.violations # <<>> THEN st.violations \o r.violations
                       ELSE st.violations,
     suppressed    |-> st.suppressed + r.suppressed]

----------------------------------------------------------------------------
(* main and run_lint, step by step                                         *)

NoStatus == -1

\* sys.exit(main()) when an exception leaves main
UncaughtExceptionStatus == 1

\* main, lines 777-781: no file found
MainNoFiles ==
    /\ pc = "main"
    /\ find_source_files(tree, argv.files) = <<>>
    /\ files' = <<>>
    /\ exit_status' = 2
    /\ pc' = "exit"
    /\ log' = Append(log, "find_source_files")
    /\ UNCHANGED <<argv, tree, conf, file_suppressions, idx, stats, results>>

\* main, lines 777-779: files found
MainFindFiles ==
    /\ pc = "main"
    /\ find_source_files(tree, argv.files) # <<>>
    /\ files' = find_source_files(tree, argv.files)
    /\ pc' = "validate"
    /\ log' = Append(log, "find_source_files")
    /\ UNCHANGED <<argv, tree, conf, file_suppressions, idx, stats, results, exit_status>>

\* `args.rule and args.rule not in RULE_CHECKS` (line 784)
IsUnknownRule(rule) == ~IsFalsy(rule) /\ rule \notin RuleFamilies

\* main, lines 784-787: unknown rule family
MainUnknownRule ==
    /\ pc = "validate"
    /\ IsUnknownRule(argv.rule)
    /\ exit_status' = 2
    /\ pc' = "exit"
    /\ log' = Append(log, "validate_rule")
    /\ UNCHANGED <<argv, tree, conf, files, file_suppressions, idx, stats, results>>

\* main, lines 784-795, and run_lint, lines 676-677
RunLintBegin ==
    /\ pc = "validate"
    /\ ~IsUnknownRule(argv.rule)
    /\ stats' = NewStats
    /\ file_suppressions' = _load_file_suppressions(conf)
    /\ idx' = 1
    /\ pc' = "run_lint"
    /\ log' = log \o <<"validate_rule", "run_lint">>
    /\ UNCHANGED <<argv, tree, conf, files, results, exit_status>>

\* a variant of run_lint in which the list of violations of one file is
\* not emptied before the next file is linted
RunLintFileRetains ==
    /\ pc = "run_lint"
    /\ idx <= Len(files)
    /\ LET fresh == lint_file(files[idx], argv.rule, file_suppressions)
           kept == IF results = <<>> THEN <<>> ELSE results[Len(results)].violations
           r == [fresh EXCEPT !.violations = kept \o fresh.violations]
       IN  /\ ~r.raised
           /\ stats' = FoldResult(stats, r)
           /\ results' = Append(results, r)
    /\ idx' = idx + 1
    /\ log' = Append(log, "lint_file")
    /\ UNCHANGED <<pc, argv, tree, conf, files, file_suppressions, exit_status>>

\* run_lint, lines 679-687: one file linted
RunLintFile ==
    /\ pc = "run_lint"
    /\ idx <= Len(files)
    /\ LET r == lint_file(files[idx], argv.rule, file_suppressions)
       IN  /\ ~r.raised
           /\ stats' = FoldResult(stats, r)
           /\ results' = Append(results, r)
    /\ idx' = idx + 1
    /\ log' = Append(log, "lint_file")
    /\ UNCHANGED <<pc, argv, tree, conf, files, file_suppressions, exit_status>>

\* run_lint, line 680: lint_file raises, and the exception leaves main
RunLintRaises ==
    /\ pc = "run_lint"
    /\ idx <= Len(files)
    /\ lint_file(files[idx], argv.rule, file_suppressions).raised
    /\ pc' = "raised"
    /\ exit_status' = UncaughtExceptionStatus
    /\ log' = Append(log, "lint_file")
    /\ UNCHANGED <<argv, tree, conf, files, file_suppressions, idx, stats, results>>

\* a variant of the status of main that returns 2 where the code returns 1
FinalStatusTwo(st) == IF st.violations # <<>> THEN 2 ELSE 0

\* the status main returns for the statistics (lines 805-819)
FinalStatus(st) == IF st.violations # <<>> THEN 1 ELSE 0

\* run_lint returns (line 693); main reports and returns (lines 797-819)
MainReport ==
    /\ pc = "run_lint"
    /\ idx > Len(files)
    /\ exit_status' = FinalStatus(stats)
    /\ pc' = "exit"
    /\ log' = Append(log, "report")
    /\ UNCHANGED <<argv, tree, conf, files, file_suppressions, idx, stats, results>>

Next ==
    \/ MainNoFiles
    \/ MainFindFiles
    \/ MainUnknownRule
    \/ RunLintBegin
    \/ RunLintFile
    \/ RunLintRaises
    \/ MainReport


----------------------------------------------------------------------------
(* Inputs.                                                                 *)

PathAH   == RelPath(<<"src">>, <<"a">>, ".h")
PathBH   == RelPath(<<"src">>, <<"b">>, ".h")
PathMCpp == RelPath(<<"src", "modules">>, <<"m">>, ".cpp")
PathGen  == RelPath(<<"src", "gen">>, <<"g">>, ".h")
PathGd   == RelPath(<<"project", "demos">>, <<"d">>, ".gd")

\* #pragma once
LnPragma == Line("pragma", <<>>, <<>>, <<>>)
\* // a.h -- description        // b.h -- description
LnDescA == Line("desc", <<"a", ".", "h">>, <<>>, <<>>)
LnDescB == Line("desc", <<"b", ".", "h">>, <<>>, <<>>)
\* the empty line
LnBlank == Line("code", <<>>, <<>>, <<>>)
\* struct foo {};
LnStructLower == Line("struct", <<"f", "o", "o">>, <<>>, <<"{", "}", ";">>)
\* float sun_color_, sun_energy_;
LnTwoMembers == Line("code", <<>>, <<"float", "sun_color_", "sun_energy_">>, <<";">>)
\* #include "godot/x.h"
LnInclude == Line("include", <<>>, <<"godot/x.h">>, <<>>)

\* the lines generated files are made of
GenLines == {
    LnPragma,
    LnDescA,
    LnStructLower,
    WithMarker(LnStructLower, Marker("//", RULE_CLASS_PASCAL)),
    WithMarker(LnBlank, Marker("//", <<"header">>)),
    LnTwoMembers,
    WithMarker(LnBlank, Marker("#", RULE_PARALLEL_STATE)),
    LnInclude}

\* a file read_text fails on, a file outside the root, a path naming no file
UnreadableFile == [SourceFile(PathAH, <<>>) EXCEPT !.readable = FALSE]
OutsideFile    == [SourceFile(PathBH, <<LnPragma, LnDescB>>) EXCEPT !.under_root = FALSE]
MissingFile    == [SourceFile(PathAH, <<>>) EXCEPT !.exists = FALSE]

\* every file of at most MaxLines generated lines, at two paths
GenFiles ==
    {SourceFile(p, ls) : p \in {PathAH, PathMCpp}, ls \in SeqsUpTo(GenLines, MaxLines)}

\* the files the runs of the engine are made of
EngineFiles == {
    SourceFile(PathAH, <<LnPragma, LnDescA>>),
    SourceFile(PathAH, <<LnPragma, LnDescA, LnStructLower>>),
    SourceFile(PathBH, <<LnPragma, LnDescB, LnStructLower>>),
    SourceFile(PathAH, <<>>),
    SourceFile(PathBH, <<LnStructLower, LnStructLower>>),
    SourceFile(PathAH, <<LnPragma, LnDescA,
                         WithMarker(LnStructLower, Marker("//", RULE_CLASS_PASCAL))>>),
    SourceFile(PathMCpp, <<LnInclude, LnTwoMembers>>),
    UnreadableFile,
    OutsideFile,
    MissingFile}

\* what rglob finds when no path is given on the command line
Trees == {
    <<>>,
    <<SourceFile(PathAH, <<LnPragma, LnDescA, LnStructLower>>),
      SourceFile(PathGen, <<>>),
      SourceFile(PathMCpp, <<LnInclude>>),
      SourceFile(PathGd, <<LnBlank>>)>>}

NoConf == [exists |-> FALSE, lines |-> <<>>]
\* [suppress]
\* src/a.h = naming/class-pascal
ConfNamingA == [exists |-> TRUE, lines |-> <<
    ConfLine("section", "suppress", PathAH, <<>>),
    ConfLine("entry", "", PathAH, <<RULE_CLASS_PASCAL>>)>>]
\* [suppress]
\* src/a.h = header, 
\* src/modules/m.cpp = godot-native/parallel-state-cpp
ConfFamilies == [exists |-> TRUE, lines |-> <<
    ConfLine("section", "suppress", PathAH, <<>>),
    ConfLine("entry", "", PathAH, <<<<"header">>, <<>>>>),
    ConfLine("entry", "", PathMCpp, <<RULE_PARALLEL_STATE>>)>>]

Confs == {NoConf, ConfNamingA, ConfFamilies}

\* --rule: absent, a family, no family
Rules == {NoneFilter,
          <<"n", "a", "m", "i", "n", "g">>,
          <<"h", "e", "a", "d", "e", "r">>,
          <<"n", "a", "m">>}

PathSub  == RelPath(<<"src", "submodules">>, <<"s">>, ".cpp")
PathACpp == RelPath(<<"src">>, <<"a">>, ".cpp")

\* void update(int a) {          void get_x(int a) {
LnUpdate == Line("func", <<"u", "p", "d", "a", "t", "e">>, <<>>, <<"{">>)
LnGetter == Line("func", <<"g", "e", "t", "_", "x">>, <<>>, <<"{">>)
\* void f(int a) { RT_ASSERT ; }          void g(int a) { x ; }
LnOneLiner == Line("func", <<"f">>, <<"RT_ASSERT">>, <<"{", ";", "}">>)
LnOneLinerPlain == Line("func", <<"g">>, <<"x">>, <<"{", ";", "}">>)
\* x ;     RT_ASSERT ;     RT_ASSERT RT_VERIFY ; ;
LnStmt == Line("code", <<>>, <<"x">>, <<";">>)
LnAssert == Line("code", <<>>, <<"RT_ASSERT">>, <<";">>)
LnTwoAsserts == Line("code", <<>>, <<"RT_ASSERT", "RT_VERIFY">>, <<";", ";">>)
\* {       }       } ;
LnOpen == Line("code", <<>>, <<>>, <<"{">>)
LnClose == Line("code", <<>>, <<>>, <<"}">>)
LnCloseSemi == Line("code", <<>>, <<>>, <<"}", ";">>)

\* a function definition (or a one-line function), up to MaxBody lines, "}"
TigerFiles ==
    {SourceFile(PathACpp, <<d>> \o body \o <<LnClose>>) :
        d \in {LnUpdate, LnGetter, LnOneLiner, LnOneLinerPlain},
        body \in SeqsUpTo({LnStmt, LnAssert, LnTwoAsserts}, MaxBody)}

GPUFooPacked == <<"G", "P", "U", "F", "o", "o", "P", "a", "c", "k", "e", "d">>
GPUBarPacked == <<"G", "P", "U", "B", "a", "r", "P", "a", "c", "k", "e", "d">>
\* struct GPUFooPacked {      struct GPUFooPacked      struct GPUBarPacked {
LnGpuFoo == Line("struct", GPUFooPacked, <<>>, <<"{">>)
LnGpuFooBare == Line("struct", GPUFooPacked, <<>>, <<>>)
LnGpuBar == Line("struct", GPUBarPacked, <<>>, <<"{">>)
\* float x ;
LnMember == Line("code", <<>>, <<"float", "x">>, <<";">>)
\* static_assert(sizeof(GPUFooPacked) == 16);     ...(GPUBarPacked)...
LnSizeofFoo == Line("sizeof", GPUFooPacked, <<>>, <<"=", "=", ";">>)
LnSizeofBar == Line("sizeof", GPUBarPacked, <<>>, <<"=", "=", ";">>)

GpuFiles ==
    {SourceFile(PathACpp, ls) :
        ls \in SeqsUpTo({LnGpuFoo, LnGpuFooBare, LnGpuBar, LnOpen, LnMember,
                         LnCloseSemi, LnSizeofFoo, LnSizeofBar}, MaxLines)}

\* struct <name> {  for the names foo, Foo, MY_MACRO, FOO, _priv, IFoo,
\* Foo_Bar, GDCLASS
NamingLines ==
    {Line("struct", name, <<>>, <<"{">>) :
        name \in {<<"f", "o", "o">>, <<"F", "o", "o">>,
                  <<"M", "Y", "_", "M", "A", "C", "R", "O">>, <<"F", "O", "O">>,
                  <<"_", "p", "r", "i", "v">>, <<"I", "F", "o", "o">>,
                  <<"F", "o", "o", "_", "B", "a", "r">>,
                  <<"G", "D", "C", "L", "A", "S", "S">>}}

NamingFiles == {SourceFile(PathAH, <<l>>) : l \in NamingLines}

LightData == <<"L", "i", "g", "h", "t", "D", "a", "t", "a">>
\* struct LightData {      struct LightData      struct Inner { } ;
LnLightData == Line("struct", LightData, <<>>, <<"{">>)
LnLightDataBare == Line("struct", LightData, <<>>, <<>>)
LnInner == Line("struct", <<"I", "n", "n", "e", "r">>, <<>>, <<"{", "}", ";">>)
\* float sun_color_ ;      static constexpr float SUN_COLOR = ;
LnSunMember == Line("code", <<>>, <<"float", "sun_color_">>, <<";">>)
LnSunConst == Line("code", <<>>, <<"static", "constexpr", "float", "SUN_COLOR">>,
                   <<"=", ";">>)

GodotFiles ==
    {SourceFile(PathACpp, ls) :
        ls \in SeqsUpTo({LnLightData, LnLightDataBare, LnOpen, LnInner,
                         LnSunMember, LnSunConst, LnCloseSemi}, MaxLines)}

\* #include "core/ray.h"      #include "accel/bvh.h"
LnIncludeCore == Line("include", <<>>, <<"core/ray.h">>, <<>>)
LnIncludeAccel == Line("include", <<>>, <<"accel/bvh.h">>, <<>>)

ModuleFiles ==
    {SourceFile(p, ls) :
        p \in {PathMCpp, PathSub, PathACpp},
        ls \in SeqsUpTo({LnInclude, LnIncludeCore, LnIncludeAccel}, 2)}

\* files for the brace matching of the density check: up to MaxBody lines
\* out of
\*   x ;      {      }      } else {
\* after a definition line with its brace ("void update(int a) {"), after
\* one without it ("void update(int a)" and "{" on the next line), after a
\* definition line followed by a second one, or between a definition line
\* and a second function with a body of five lines
BraceFiles ==
    LET LnUpdateBare == Line("func", <<"u", "p", "d", "a", "t", "e">>, <<>>, <<>>)
        LnElse == Line("code", <<>>, <<"else">>, <<"}", "{">>)
        second == <<LnUpdate, LnStmt, LnStmt, LnStmt, LnStmt, LnClose>>
        around == {<<<<LnUpdate>>, <<>>>>,
                   <<<<LnUpdate>>, second>>,
                   <<<<LnUpdateBare, LnOpen>>, <<>>>>,
                   <<<<LnUpdate, LnUpdate>>, <<>>>>}
    IN  {SourceFile(PathACpp, a[1] \o body \o a[2]) :
            a \in around,
            body \in SeqsUpTo({LnStmt, LnOpen, LnClose, LnElse}, MaxBody)}

\* the files the checks are run on, one family of inputs per check
CheckFiles ==
    TigerFiles \cup BraceFiles \cup GpuFiles \cup NamingFiles \cup GodotFiles
        \cup ModuleFiles

InitRest ==
    /\ pc = "main"
    /\ files = <<>>
    /\ file_suppressions = <<>>
    /\ idx = 0
    /\ stats = NewStats
    /\ results = <<>>
    /\ exit_status = NoStatus
    /\ log = <<>>

\* a run of main over a list of engine files, or over a scanned tree
Init ==
    /\ conf \in Confs
    /\ \/ /\ argv \in [files : SeqsUpTo(EngineFiles, MaxFiles) \ {<<>>}, rule : Rules]
          /\ tree = <<>>
       \/ /\ argv \in [files : {<<>>}, rule : Rules]
          /\ tree \in Trees
    /\ InitRest

\* a run of main over one generated file
InitFile ==
    /\ conf \in {NoConf, ConfNamingA, ConfFamilies}
    /\ argv \in [files : {<<f>> : f \in GenFiles \cup {UnreadableFile, OutsideFile, MissingFile}},
                 rule : {NoneFilter, <<"n", "a", "m">>}]
    /\ tree = <<>>
    /\ InitRest

Spec == Init /\ [][Next]_vars

SpecFile == InitFile /\ [][Next]_vars

\* a run of main over one of the files made for the checks
InitChecks ==
    /\ conf = NoConf
    /\ argv \in [files : {<<f>> : f \in CheckFiles \cup {UnreadableFile, OutsideFile, MissingFile}},
                 rule : {NoneFilter, <<"n", "a", "m">>}]
    /\ tree = <<>>
    /\ InitRest

SpecChecks == InitChecks /\ [][Next]_vars

\* the lines a generated lint.conf is made of:
\*   [suppress]      [SUPPRESS]      [rules]      # note      (blank)
\*   src/a.h = naming/class-pascal, header
\*   src/a.h = header/pragma-once,
\*   src/modules/m.cpp = godot-native/parallel-state-cpp
\*   src/a.h
GenConfLines == {
    ConfLine("section", "suppress", PathAH, <<>>),
    ConfLine("section", "SUPPRESS", PathAH, <<>>),
    ConfLine("section", "rules", PathAH, <<>>),
    ConfLine("comment", "", PathAH, <<>>),
    ConfLine("blank", "", PathAH, <<>>),
    ConfLine("entry", "", PathAH, <<RULE_CLASS_PASCAL, <<"header">>>>),
    ConfLine("entry", "", PathAH, <<RULE_PRAGMA_ONCE, <<>>>>),
    ConfLine("entry", "", PathMCpp, <<RULE_PARALLEL_STATE>>),
    ConfLine("other", "", PathAH, <<>>)}

\* a run of main over one file under a generated lint.conf
InitConf ==
    /\ conf \in {[exists |-> TRUE, lines |-> ls] : ls \in SeqsUpTo(GenConfLines, MaxLines)}
    /\ argv \in [files : {<<f>> : f \in {SourceFile(PathAH, <<LnStructLower>>),
                                         UnreadableFile, OutsideFile, MissingFile}},
                 rule : {NoneFilter, <<"n", "a", "m">>}]
    /\ tree = <<>>
    /\ InitRest

SpecConf == InitConf /\ [][Next]_vars


----------------------------------------------------------------------------
(* Properties.                                                             *)

\* the results of the lint_file calls that read their file and returned
Linted == {k \in 1..Len(results) : results[k].read /\ ~results[k].raised}

\* v is in the list vs
InList(v, vs) == \E k \in 1..Len(vs) : vs[k] = v

\* a rule id is named by a token set: the exact id, or the text before its
\* first '/'
Names(tokens, rule) == rule \in tokens \/ <<rule[1]>> \in tokens

\* the tokens of the markers written on 1-based lines n - 1 and n
WindowTokens(lines, n) ==
    {lines[q].marker.tok : q \in {q \in 1..Len(lines) : HasMarker(lines[q]) /\ q \in {n - 1, n}}}

\* the file-level tokens the loaded table holds for the path
TableTokens(path) ==
    IF path \in DOMAIN file_suppressions THEN file_suppressions[path] ELSE {}

\* the elements of vs that do not satisfy Drop, in order
Keep(vs, Drop(_)) == SelectSeq(vs, LAMBDA v : ~Drop(v))

\* C1: lint_file drops a raw violation, and counts it as suppressed, exactly
\* when its id or its family is in the inline set of its line or in the
\* file-level set of its file; what is left is reported in order.
C1_SuppressedIffNamed ==
    \A k \in Linted :
        LET r == results[k]
            inline == InlineSuppressions(r.file.lines)
            Dropped(v) ==
                \/ Names(LineSupp(inline, v.line - 1), v.rule)
                \/ Names(TableTokens(r.file.path), v.rule)
        IN  /\ r.violations = Keep(r.raw, Dropped)
            /\ r.suppressed = Len(r.raw) - Len(Keep(r.raw, Dropped))

\* C1 witness: the family token "header" alone has suppressed checks of two
\* different ids of the family.
C1_Witness ==
    \E k \in Linted :
        LET r == results[k]
        IN  /\ file_suppressions = <<>>
            /\ \A q \in 1..Len(r.file.lines) :
                   HasMarker(r.file.lines[q]) => r.file.lines[q].marker.tok = <<"header">>
            /\ InList(RULE_PRAGMA_ONCE, [i \in 1..Len(r.raw) |-> r.raw[i].rule])
            /\ InList(RULE_DESCRIPTION, [i \in 1..Len(r.raw) |-> r.raw[i].rule])
            /\ \A i \in 1..Len(r.violations) : r.violations[i].rule[1] # "header"
            /\ r.suppressed >= 2

\* C2: a marker on line N acts on lines N and N+1 only.  A raw violation on
\* a line that has a marker naming it on the line itself or on the line
\* before is not reported; a raw violation on a line with no marker on it
\* and none on the line before is reported (unless the file-level table
\* names it).
C2_MarkerWindow ==
    \A k \in Linted :
        LET r == results[k]
        IN  \A i \in 1..Len(r.raw) :
                LET v == r.raw[i]
                    marked == {q \in 1..Len(r.file.lines) : HasMarker(r.file.lines[q])}
                IN  /\ Names(WindowTokens(r.file.lines, v.line), v.rule)
                          => ~InList(v, r.violations)
                    /\ (/\ v.line \notin marked
                        /\ v.line - 1 \notin marked
                        /\ ~Names(TableTokens(r.file.path), v.rule))
                          => InList(v, r.violations)

\* C2 witness: a marker on line 1 names the rule of violations on line 1 and
\* on line 3; the one on line 1 is suppressed, the one on line 3 reported.
C2_Witness ==
    \E k \in Linted :
        LET r == results[k]
        IN  /\ Len(r.file.lines) = 3
            /\ HasMarker(r.file.lines[1])
            /\ ~HasMarker(r.file.lines[2]) /\ ~HasMarker(r.file.lines[3])
            /\ \E i, j \in 1..Len(r.raw) :
                   /\ r.raw[i].line = 1 /\ r.raw[j].line = 3
                   /\ r.raw[i].rule = r.file.lines[1].marker.tok
                   /\ r.raw[j].rule = r.file.lines[1].marker.tok
                   /\ ~InList(r.raw[i], r.violations)
                   /\ InList(r.raw[j], r.violations)

\* C3: a file-level entry for path P suppresses the rules it names on every
\* line of the file at P and of no other file: a raw violation is dropped
\* when the table names it for the file's own path, and a raw violation
\* that no marker names is reported when the table does not name it for the
\* file's own path, whatever the table holds for other paths.
C3_FileLevelOwnPathOnly ==
    \A k \in Linted :
        LET r == results[k]
        IN  \A i \in 1..Len(r.raw) :
                LET v == r.raw[i]
                IN  /\ Names(TableTokens(r.file.path), v.rule) => ~InList(v, r.violations)
                    /\ (/\ ~Names(TableTokens(r.file.path), v.rule)
                        /\ ~Names(WindowTokens(r.file.lines, v.line), v.rule))
                          => InList(v, r.violations)

\* the violations of rule in vs
OfRule(vs, rule) == SelectSeq(vs, LAMBDA v : v.rule = rule)

\* C3 witness: with "src/a.h = naming/class-pascal", the lowercase struct in
\* src/a.h gave no naming violation and the same struct in src/b.h gave one.
C3_Witness ==
    /\ PathAH \in DOMAIN file_suppressions
    /\ file_suppressions[PathAH] = {RULE_CLASS_PASCAL}
    /\ PathBH \notin DOMAIN file_suppressions
    /\ \E j, k \in Linted :
           /\ results[j].file.path = PathAH /\ results[k].file.path = PathBH
           /\ InList(LnStructLower, results[j].file.lines)
           /\ InList(LnStructLower, results[k].file.lines)
           /\ Len(OfRule(results[j].violations, RULE_CLASS_PASCAL)) = 0
           /\ Len(OfRule(results[k].violations, RULE_CLASS_PASCAL)) = 1

\* the sum of f over 1..n
RECURSIVE SumTo(_, _)
SumTo(f(_), n) == IF n = 0 THEN 0 ELSE f(n) + SumTo(f, n - 1)

\* C4: no suppressed violation vanishes.  For every file the raw violations
\* are the reported ones plus the suppressed count, and the run's suppressed
\* counter is the number of raw violations dropped over the files linted.
C4_SuppressedCounted ==
    /\ \A k \in 1..Len(results) :
           Len(results[k].raw) = Len(results[k].violations) + results[k].suppressed
    /\ pc \in {"run_lint", "exit"} =>
           /\ stats.suppressed =
                 SumTo(LAMBDA k : Len(results[k].raw) - Len(results[k].violations),
                       Len(results))
           /\ Len(stats.violations) = SumTo(LAMBDA k : Len(results[k].violations),
                                            Len(results))

\* C4 witness: a finished run of two files, each with a suppressed violation.
C4_Witness ==
    /\ pc = "exit"
    /\ Len(results) = 2
    /\ results[1].suppressed > 0 /\ results[2].suppressed > 0
    /\ stats.suppressed = results[1].suppressed + results[2].suppressed

\* the file with a marker naming rule written on its 1-based line n
WithInlineMarker(f, n, rule) ==
    [f EXCEPT !.lines[n] = WithMarker(@, Marker("//", rule))]

\* the reported violations of r that a marker on line n naming rule covers
CoveredByMarker(r, n, rule) ==
    SelectSeq(r.violations, LAMBDA w : w.rule = rule /\ w.line \in {n, n + 1})

\* the reported violations that can take a marker on their own line
Markable(r) ==
    {i \in 1..Len(r.violations) :
        /\ r.violations[i].line \in 1..Len(r.file.lines)
        /\ ~HasMarker(r.file.lines[r.violations[i].line])}

\* C5 as stated: suppressing a reported violation by its exact rule id, with
\* a marker on its line or with a file-level entry, removes it from the
\* output and adds exactly 1 to the suppressed count.
C5_SuppressOneExactly ==
    \A k \in Linted :
        LET r == results[k]
        IN  /\ \A i \in Markable(r) :
                   LET v == r.violations[i]
                       r2 == lint_file(WithInlineMarker(r.file, v.line, v.rule),
                                       argv.rule, file_suppressions)
                   IN  ~InList(v, r2.violations) /\ r2.suppressed = r.suppressed + 1
            /\ \A i \in 1..Len(r.violations) :
                   LET v == r.violations[i]
                       r3 == lint_file(r.file, argv.rule,
                                       AddRule(file_suppressions, r.file.path, v.rule))
                   IN  ~InList(v, r3.violations) /\ r3.suppressed = r.suppressed + 1

\* C5 amended: suppressing a reported violation by its exact rule id removes
\* it from the output, and adds to the suppressed count the number of
\* reported violations with that id the suppression covers (the marker's
\* line and the next; the whole file for a file-level entry): at least 1,
\* and exactly 1 only when the violation is the only one of them.
C5_SuppressAllCovered ==
    \A k \in Linted :
        LET r == results[k]
        IN  /\ \A i \in Markable(r) :
                   LET v == r.violations[i]
                       r2 == lint_file(WithInlineMarker(r.file, v.line, v.rule),
                                       argv.rule, file_suppressions)
                       n == Len(CoveredByMarker(r, v.line, v.rule))
                   IN  /\ ~InList(v, r2.violations)
                       /\ n >= 1
                       /\ r2.suppressed = r.suppressed + n
                       /\ Len(r2.violations) = Len(r.violations) - n
            /\ \A i \in 1..Len(r.violations) :
                   LET v == r.violations[i]
                       r3 == lint_file(r.file, argv.rule,
                                       AddRule(file_suppressions, r.file.path, v.rule))
                       n == Len(OfRule(r.violations, v.rule))
                   IN  /\ ~InList(v, r3.violations)
                       /\ n >= 1
                       /\ r3.suppressed = r.suppressed + n
                       /\ Len(r3.violations) = Len(r.violations) - n

\* C5 witness: a file was linted in which one line carries two reported
\* violations of one rule id, so that one marker on it suppresses both.
C5_Witness ==
    \E k \in Linted :
        LET r == results[k]
        IN  \E i \in Markable(r) :
                LET v == r.violations[i]
                    r2 == lint_file(WithInlineMarker(r.file, v.line, v.rule),
                                    argv.rule, file_suppressions)
                IN  /\ Len(SelectSeq(r.violations,
                                     LAMBDA w : w.rule = v.rule /\ w.line = v.line)) = 2
                    /\ r2.suppressed = r.suppressed + 2

\* C6 as stated: every violation a check emits has a line number between 1
\* and the number of lines of the file.
C6_LineInFile ==
    \A k \in Linted :
        \A i \in 1..Len(results[k].raw) :
            results[k].raw[i].line \in 1..Len(results[k].file.lines)

\* C7 as stated: a file that cannot be read yields a single diagnostic for
\* that file.
C7_ReadErrorDiagnostic ==
    \A k \in 1..Len(results) :
        ~results[k].read =>
            /\ Len(results[k].violations) = 1
            /\ InList(results[k].violations[1], stats.violations)

\* C8 as stated: whatever the files, run_lint runs to its return, and when it
\* has returned files_checked is the number of files it was given.
C8_RunCompletes ==
    /\ pc # "raised"
    /\ InList("report", log) => stats.files_checked = Len(files)

\* the configuration errors of main: no file found, unknown rule family
ConfigurationError ==
    \/ find_source_files(tree, argv.files) = <<>>
    \/ IsUnknownRule(argv.rule)

\* C9 as stated: the process exits 0 exactly when the run completed with no
\* unsuppressed violation, 1 exactly when there is an unsuppressed
\* violation, 2 exactly on a configuration error.
C9_ExitStatus ==
    exit_status # NoStatus =>
        /\ exit_status \in {0, 1, 2}
        /\ exit_status = 0 <=> (InList("report", log) /\ stats.violations = <<>>)
        /\ exit_status = 1 <=> stats.violations # <<>>
        /\ exit_status = 2 <=> ConfigurationError

\* C10: when main returns 2, run_lint has not been called and no file has
\* been read or linted.
C10_StatusTwoBeforeRun ==
    exit_status = 2 =>
        /\ ~InList("run_lint", log)
        /\ ~InList("lint_file", log)
        /\ results = <<>>
        /\ stats = NewStats

\* C10 witness: main returned 2 for an unknown rule family, with files found.
C10_Witness ==
    /\ exit_status = 2
    /\ pc = "exit"
    /\ files # <<>>
    /\ IsUnknownRule(argv.rule)

\* the name of a family as characters, from the first segment of a rule id
FamilyName(segment) ==
    CASE segment = "header" -> <<"h", "e", "a", "d", "e", "r">>
      [] segment = "tiger"  -> <<"t", "i", "g", "e", "r">>
      [] segment = "gpu"    -> <<"g", "p", "u">>
      [] segment = "module" -> <<"m", "o", "d", "u", "l", "e">>
      [] segment = "naming" -> <<"n", "a", "m", "i", "n", "g">>
      [] OTHER -> <<"g", "o", "d", "o", "t", "-", "n", "a", "t", "i", "v", "e">>

\* the raw violations of the checks of the registry entries that satisfy
\* Runs, entry after entry and check after check
ChecksOf(f, Runs(_)) ==
    Flatten([k \in 1..Len(RULE_CHECKS) |->
        IF Runs(RULE_CHECKS[k].family)
        THEN Flatten([c \in 1..Len(RULE_CHECKS[k].checks) |->
                        CallCheck(RULE_CHECKS[k].checks[c], f.path, f.lines)])
        ELSE <<>>])

\* family filters the engine can be given: prefixes of one or two families
PrefixFilters == {<<"h">>, <<"g">>, <<"n", "a">>,
                  <<"n", "a", "m", "i", "n", "g">>, <<"x">>}

\* the raw violations, reported and suppressed, of lint_file under the filter
\* F are those of the checks of the families that start with F, each of a
\* family that starts with F
FilterRunsPrefix(f, F, r) ==
    /\ r.raw = ChecksOf(f, LAMBDA family : StartsWith(family, F))
    /\ \A i \in 1..Len(r.raw) : StartsWith(FamilyName(r.raw[i].rule[1]), F)
    /\ Len(r.raw) = Len(r.violations) + r.suppressed

\* C11: under a family filter F the engine runs exactly the checks of the
\* families whose name starts with F, so every raw violation (reported or
\* suppressed) is of such a family; with no filter it runs the checks of
\* every family in registry order.
C11_FilterRunsPrefixFamilies ==
    \A k \in Linted :
        LET r == results[k]
        IN  /\ IsFalsy(argv.rule) => r.raw = ChecksOf(r.file, LAMBDA family : TRUE)
            /\ ~IsFalsy(argv.rule) => FilterRunsPrefix(r.file, argv.rule, r)
            /\ \A F \in PrefixFilters :
                   FilterRunsPrefix(r.file, F, lint_file(r.file, F, file_suppressions))

\* C11 witness: a run under the filter "naming" linted a file that has
\* header violations too, and found the naming violations only.
C11_Witness ==
    \E k \in Linted :
        LET r == results[k]
        IN  /\ argv.rule = <<"n", "a", "m", "i", "n", "g">>
            /\ r.raw # <<>>
            /\ \A i \in 1..Len(r.raw) : r.raw[i].rule = RULE_CLASS_PASCAL
            /\ check_header_pragma_once(r.file.path, r.file.lines) # <<>>

\* C12: the statistics run_lint builds are the fold of the per-file
\* results: files_checked counts the files processed, files_passed those
\* whose unsuppressed list is empty, files_checked = files_passed +
\* files_failed, the violations are the per-file lists in file order,
\* suppressed is the sum of the per-file counts and not negative, and the
\* values of rule_counts sum to the number of violations.
C12_StatsAreFold ==
    LET passed == {k \in 1..Len(results) : results[k].violations = <<>>}
        counts == rule_counts(stats)
        rules == [i \in 1..Len(stats.violations) |-> stats.violations[i].rule]
    IN  /\ stats.files_checked = Len(results)
        /\ InList("report", log) => stats.files_checked = Len(files)
        /\ stats.files_passed = Cardinality(passed)
        /\ stats.files_checked = stats.files_passed + files_failed(stats)
        /\ files_failed(stats) = Len(results) - Cardinality(passed)
        /\ stats.violations = Flatten([k \in 1..Len(results) |-> results[k].violations])
        /\ stats.suppressed = SumTo(LAMBDA k : results[k].suppressed, Len(results))
        /\ stats.suppressed >= 0
        /\ \A k \in 1..Len(results) : results[k].suppressed >= 0
        /\ \A rule \in DOMAIN counts : counts[rule] = Len(OfRule(stats.violations, rule))
        /\ DOMAIN counts = {rules[i] : i \in 1..Len(rules)}
        /\ Len(stats.violations) =
              SumTo(LAMBDA i : IF \A j \in 1..(i - 1) : rules[j] # rules[i]
                               THEN counts[rules[i]] ELSE 0,
                    Len(rules))

\* C12 witness: run_lint returned after two files with different violations,
\* one of them with a suppressed violation as well.
C12_Witness ==
    /\ InList("report", log)
    /\ Len(results) = 2
    /\ results[1].violations # <<>> /\ results[2].violations # <<>>
    /\ results[1].violations # results[2].violations
    /\ Cardinality(DOMAIN rule_counts(stats)) >= 2
    /\ stats.suppressed > 0

\* the violations of rule among the raw violations of r, and those on line p
RawOf(r, rule) == OfRule(r.raw, rule)
RawAt(r, rule, p) == SelectSeq(r.raw, LAMBDA v : v.rule = rule /\ v.line = p)

\* the file is a function definition line that opens the body, body lines
\* without braces, and the line of the closing brace
IsFunctionFile(f) ==
    /\ Len(f.lines) >= 2
    /\ f.lines[1].kind = "func" /\ f.lines[1].punct = <<"{">>
    /\ f.lines[Len(f.lines)] = LnClose
    /\ \A p \in 2..(Len(f.lines) - 1) : BraceChars(f.lines[p]) = <<>>

\* the number of assertion-macro occurrences on the lines after the first
AssertOccurrences(f) ==
    SumTo(LAMBDA p : IF p = 1 THEN 0
                     ELSE Len(SelectSeq(f.lines[p].words, LAMBDA w : w \in AssertWords)),
          Len(f.lines))

\* C13 as stated: a function body of at least 5 lines with exactly one
\* assertion-macro occurrence gives exactly one tiger/assertion-density
\* violation, a warning on the definition line citing 1 assertion; with two
\* or more occurrences it gives none.
C13_DensityByOccurrences ==
    \A k \in Linted :
        LET r == results[k]
            tiger == RawOf(r, RULE_ASSERT_DENSITY)
        IN  IsFunctionFile(r.file) /\ Len(r.file.lines) - 2 >= MIN_FUNCTION_BODY_LINES =>
                /\ AssertOccurrences(r.file) = 1 =>
                       /\ Len(tiger) = 1
                       /\ tiger[1].line = 1
                       /\ tiger[1].message[2] = 1
                       /\ tiger[1].severity = "warning"
                /\ AssertOccurrences(r.file) >= 2 => tiger = <<>>

\* C14: a trivial function gives no density violation whatever its
\* assertions: a function whose body opens and closes on the definition
\* line, and a function with fewer than MIN_FUNCTION_BODY_LINES lines after
\* the definition line, up to and including the line of the closing brace.
C14_TrivialNeverFlagged ==
    \A k \in Linted :
        LET r == results[k]
            f == r.file
        IN  /\ (/\ f.lines # <<>>
                /\ f.lines[1].kind = "func"
                /\ CountChar(f.lines[1], "{") = CountChar(f.lines[1], "}")
                /\ \A p \in 2..Len(f.lines) : f.lines[p].kind # "func")
                  => RawOf(r, RULE_ASSERT_DENSITY) = <<>>
            /\ IsFunctionFile(f) /\ Len(f.lines) - 1 < MIN_FUNCTION_BODY_LINES
                  => RawOf(r, RULE_ASSERT_DENSITY) = <<>>

\* C14 witness: a one-line function followed by five lines without an
\* assertion was linted and gave no density violation.
C14_Witness ==
    \E k \in Linted :
        LET f == results[k].file
        IN  /\ f.lines = <<LnOneLinerPlain, LnStmt, LnStmt, LnStmt, LnStmt, LnStmt, LnClose>>
            /\ RawOf(results[k], RULE_ASSERT_DENSITY) = <<>>

\* the header violations among the raw violations of r
HeaderViolations(r) == SelectSeq(r.raw, LAMBDA v : v.rule[1] = "header")

IsGpuDefinition(lines, p) ==
    /\ lines[p].kind = "struct" /\ IsGpuPackedName(lines[p].name)
    /\ \/ lines[p].punct = <<"{">>
       \/ lines[p].punct = <<>> /\ p < Len(lines) /\ lines[p + 1] = LnOpen

\* the file holds static_assert(sizeof(<name>)
HasAssertFor(lines, name) ==
    \E q \in 1..Len(lines) : lines[q].kind = "sizeof" /\ lines[q].name = name

\* C16 as stated: a definition of a struct GPU...Packed gives exactly one
\* gpu/static-assert violation, on its line, when the file nowhere holds
\* static_assert(sizeof(<its name>), whatever other struct is asserted, and
\* none when the file holds it anywhere.
C16_OnePerGpuStruct ==
    \A k \in Linted :
        LET r == results[k]
            ls == r.file.lines
        IN  \A p \in 1..Len(ls) :
                IsGpuDefinition(ls, p) =>
                    IF HasAssertFor(ls, ls[p].name)
                    THEN RawAt(r, RULE_GPU_ASSERT, p) = <<>>
                    ELSE /\ Len(RawAt(r, RULE_GPU_ASSERT, p)) = 1
                         /\ RawAt(r, RULE_GPU_ASSERT, p)[1].message = <<ls[p].name>>

\* the name is all-uppercase: uppercase letters, digits and '_' only
AllUppercase(name) ==
    /\ \E i \in 1..Len(name) : name[i] \in UpperCase
    /\ \A i \in 1..Len(name) : name[i] \in UpperCase \cup Digits \cup {"_"}

\* the name without a recognized interface prefix: an uppercase letter
\* followed by another uppercase letter
StripInterfacePrefix(name) ==
    IF Len(name) >= 2 /\ name[1] \in UpperCase /\ name[2] \in UpperCase
    THEN Tail(name) ELSE name

\* an uppercase letter followed by alphanumerics only
IsPascalCase(name) ==
    /\ name # <<>> /\ name[1] \in UpperCase
    /\ \A i \in 2..Len(name) : name[i] \in UpperCase \cup LowerCase \cup Digits

\* C17 as stated: a struct/class declaration line gets a naming/class-pascal
\* violation exactly when its name is not all-uppercase, does not begin with
\* '_', and without its interface prefix is not PascalCase; an all-uppercase
\* name such as MY_MACRO is never flagged.
C17_NamingSkipsUppercase ==
    \A k \in Linted :
        LET r == results[k]
            ls == r.file.lines
        IN  r.file.path = PathAH =>
                \A p \in 1..Len(ls) :
                    ls[p] \in NamingLines =>
                        (RawAt(r, RULE_CLASS_PASCAL, p) # <<>>
                            <=> /\ ~AllUppercase(ls[p].name)
                                /\ ls[p].name[1] # "_"
                                /\ ~IsPascalCase(StripInterfacePrefix(ls[p].name)))

\* the scopes open after the braces of a line: a '{' opens the struct or
\* class declared last and not yet opened, or else a block (NoStruct); a '}'
\* closes the innermost scope; a ';' ends a declaration without a body
RECURSIVE ScopeAfterChars(_, _, _)
ScopeAfterChars(chars, stack, pending) ==
    IF chars = <<>> THEN [stack |-> stack, pending |-> pending]
    ELSE CASE Head(chars) = "{" ->
                ScopeAfterChars(Tail(chars), Append(stack, pending), NoStruct)
           [] Head(chars) = "}" ->
                ScopeAfterChars(Tail(chars),
                                IF stack = <<>> THEN <<>>
                                ELSE SubSeq(stack, 1, Len(stack) - 1),
                                NoStruct)
           [] Head(chars) = ";" -> ScopeAfterChars(Tail(chars), stack, NoStruct)
           [] OTHER -> ScopeAfterChars(Tail(chars), stack, pending)

\* the scopes open before line p, by brace matching from the top of the file
RECURSIVE ScopeBefore(_, _)
ScopeBefore(lines, p) ==
    IF p = 1 THEN [stack |-> <<>>, pending |-> NoStruct]
    ELSE LET before == ScopeBefore(lines, p - 1)
             l == lines[p - 1]
         IN  ScopeAfterChars(l.punct, before.stack,
                             IF l.kind \in {"struct", "class"} THEN l.name
                             ELSE before.pending)

\* the name of the innermost struct or class open before line p
EnclosingStruct(lines, p) ==
    LET named == SelectSeq(ScopeBefore(lines, p).stack, LAMBDA n : n # NoStruct)
    IN  IF named = <<>> THEN NoStruct ELSE named[Len(named)]

\* C18 as stated: a constant declaration that matches a pattern of
\* _HARDCODED_SCENE_PATTERNS gets a godot-native/hardcoded-scene-val
\* violation on its line in every scope, inside a data-transfer struct too.
C18_HardcodedInEveryScope ==
    \A k \in Linted :
        LET r == results[k]
            ls == r.file.lines
        IN  IsCppSource(r.file.path) =>
                \A p \in 1..Len(ls) :
                    (/\ ls[p].kind = "code"
                     /\ \E n \in 1..Len(_HARDCODED_SCENE_PATTERNS) : HardcodedMatch(n, ls[p]))
                        => RawAt(r, RULE_HARDCODED, p) # <<>>

\* C19 as stated: a declaration line between the opening brace and the
\* matching closing brace of a data-transfer struct gets no
\* godot-native/parallel-state-cpp violation, with the opening brace on the
\* declaration line or on the next line, and with nested blocks or nested
\* struct declarations closed before the line.
C19_ExemptInEveryLayout ==
    \A k \in Linted :
        LET r == results[k]
            ls == r.file.lines
        IN  \A p \in 1..Len(ls) :
                (/\ ls[p].kind = "code"
                 /\ EnclosingStruct(ls, p) \in _DATA_TRANSFER_STRUCTS)
                    => RawAt(r, RULE_PARALLEL_STATE, p) = <<>>

\* the file lies in a directory named modules
UnderModules(path) == \E i \in 1..Len(path.dir) : path.dir[i] = "modules"

\* the include directive of the line names a forbidden header
IsForbiddenInclude(l) ==
    /\ l.kind = "include" /\ Len(l.words) = 1
    /\ \E n \in 1..Len(_FORBIDDEN_INCLUDES) : l.words[1] \in _FORBIDDEN_INCLUDES[n]

\* C20 as stated: a file that is not under modules/ gets no module/boundary
\* violation whatever it includes; in a file under modules/ every include
\* directive of a forbidden header gets its own violation, on its line and
\* citing the directive, and no other line gets one.
C20_ModuleFilesOnly ==
    \A k \in Linted :
        LET r == results[k]
            ls == r.file.lines
        IN  IF ~UnderModules(r.file.path) THEN RawOf(r, RULE_MODULE_BOUNDARY) = <<>>
            ELSE \A p \in 1..Len(ls) :
                    IF IsForbiddenInclude(ls[p])
                    THEN RawAt(r, RULE_MODULE_BOUNDARY, p) =
                            <<Violation(r.file.path, p, RULE_MODULE_BOUNDARY,
                                        <<"include", ls[p]>>, "error")>>
                    ELSE RawAt(r, RULE_MODULE_BOUNDARY, p) = <<>>

\* the name of a section header in lower case
LowerSection(name) == IF name \in {"Suppress", "SUPPRESS"} THEN "suppress" ELSE name

\* the section header line p of the configuration is under: the position of
\* the most recent section header before it, 0 before any header
HeaderBefore(ls, p) ==
    LET hs == {h \in 1..(p - 1) : ls[h].kind = "section"}
    IN  IF hs = {} THEN 0 ELSE CHOOSE h \in hs : \A g \in hs : g <= h

\* the table the entries at the positions ps of the configuration give: for
\* each path the union of the non-empty rule tokens of its entries
TableOf(ls, ps) ==
    LET rulesOf(q) == {t \in UNION {{ls[p].rules[i] : i \in 1..Len(ls[p].rules)} :
                                      p \in {e \in ps : ls[e].path = q}} : t # <<>>}
        paths == {q \in {ls[p].path : p \in ps} : rulesOf(q) # {}}
    IN  [q \in paths |-> rulesOf(q)]

\* the entry lines of the configuration whose most recent section header
\* has a name in names
EntriesUnder(ls, names) ==
    {p \in 1..Len(ls) : /\ ls[p].kind = "entry"
                        /\ HeaderBefore(ls, p) # 0
                        /\ ls[HeaderBefore(ls, p)].name \in names}

\* C21 as stated: the table loaded is the union, path by path, of the
\* non-empty rule tokens of exactly the entries whose most recent section
\* header is [suppress]; every other line adds nothing.
C21_EntriesUnderSuppressOnly ==
    InList("run_lint", log) /\ conf.exists =>
        file_suppressions = TableOf(conf.lines, EntriesUnder(conf.lines, {"suppress"}))

\* C21: the table loaded is the union, path by path, of the non-empty rule
\* tokens of exactly the entries whose most recent section header is
\* [suppress] in any letter case; entries under another section or before
\* any section header, comments, blank lines and lines without '=' add
\* nothing, and a path all of whose tokens are empty gets no set.
C21_EntriesUnderSuppressAnyCase ==
    InList("run_lint", log) /\ conf.exists =>
        file_suppressions =
            TableOf(conf.lines,
                    {p \in 1..Len(conf.lines) :
                        /\ conf.lines[p].kind = "entry"
                        /\ HeaderBefore(conf.lines, p) # 0
                        /\ LowerSection(conf.lines[HeaderBefore(conf.lines, p)].name)
                               = "suppress"})

\* C21 witness: "[suppress]", two entries for src/a.h, the second with an
\* empty token, were loaded: the sets of the two entries are united.
C21_Witness ==
    /\ InList("run_lint", log)
    /\ conf.lines = <<ConfLine("section", "suppress", PathAH, <<>>),
                      ConfLine("entry", "", PathAH, <<RULE_CLASS_PASCAL, <<"header">>>>),
                      ConfLine("entry", "", PathAH, <<RULE_PRAGMA_ONCE, <<>>>>)>>
    /\ DOMAIN file_suppressions = {PathAH}
    /\ file_suppressions[PathAH] = {RULE_CLASS_PASCAL, <<"header">>, RULE_PRAGMA_ONCE}

\* the statistics of a run of run_lint over the first n of the files fs,
\* started afresh: a new LintStats, each file linted on its own
RECURSIVE StatsOfRun(_, _, _, _)
StatsOfRun(fs, rule_filter, table, n) ==
    IF n = 0 THEN NewStats
    ELSE FoldResult(StatsOfRun(fs, rule_filter, table, n - 1),
                    lint_file(fs[n], rule_filter, table))

BraceOnNextLine(f) ==
    /\ Len(f.lines) >= 2
    /\ f.lines[1].kind = "func" /\ f.lines[1].punct = <<>>
    /\ ~HasMarker(f.lines[1])
    /\ f.lines[2].kind = "code" /\ f.lines[2].words = <<>> /\ f.lines[2].punct = <<"{">>

\* the same lines with the opening brace written on the signature line
BraceOnSameLine(lines) ==
    <<[lines[1] EXCEPT !.punct = <<"{">>]>> \o SubSeq(lines, 3, Len(lines))

\* C23 as stated: a function written with its opening brace on the line
\* after the signature gets a density violation on its signature line
\* whenever the same function written with the brace on the signature line
\* gets one (in a run of every rule family).
C23_BraceOnNextLineRecognized ==
    \A k \in Linted :
        LET r == results[k]
            same == check_tiger_assertion_density(r.file.path, BraceOnSameLine(r.file.lines))
        IN  (/\ BraceOnNextLine(r.file)
             /\ argv.rule = NoneFilter
             /\ \E i \in 1..Len(same) : same[i].line = 1)
                => RawAt(r, RULE_ASSERT_DENSITY, 1) # <<>>

\* the '{' of a line minus its '}'
NetBraces(l) == CountChar(l, "{") - CountChar(l, "}")

\* the depth before line j of the body of the definition on line d: the
\* braces of the definition line and of the body lines before j
DepthBefore(lines, d, j) ==
    SumTo(LAMBDA m : IF m >= d THEN NetBraces(lines[m]) ELSE 0, j - 1)

\* the depth returns to zero at a brace of line j
ReturnsToZero(lines, d, j) ==
    LET cs == BraceChars(lines[j])
    IN  \E n \in 1..Len(cs) :
            DepthBefore(lines, d, j)
              + Len(SelectSeq(SubSeq(cs, 1, n), LAMBDA c : c = "{"))
              - Len(SelectSeq(SubSeq(cs, 1, n), LAMBDA c : c = "}")) = 0

\* the line the body of the definition on line d ends on: the first line
\* after d on which the depth returns to zero, the last line of the file if
\* there is none
BodyEndLine(lines, d) ==
    LET ends == {j \in (d + 1)..Len(lines) : ReturnsToZero(lines, d, j)}
    IN  IF ends = {} THEN Len(lines)
        ELSE CHOOSE j \in ends : \A e \in ends : j <= e

\* line d is a definition whose body is measured: a definition line with a
\* name that is neither a keyword nor trivial, left open by its own braces
OpensBody(l) ==
    /\ FuncDefMatch(l)
    /\ Unqualified(l.name) \notin _CPP_KEYWORDS
    /\ ~IsTrivialName(Unqualified(l.name))
    /\ NetBraces(l) > 0

\* the bodies found from line p on: each is the first definition at or
\* after the line that follows the body before it
RECURSIVE BodiesFrom(_, _)
BodiesFrom(lines, p) ==
    IF p > Len(lines) THEN <<>>
    ELSE IF OpensBody(lines[p])
         THEN <<[def |-> p, end |-> BodyEndLine(lines, p)]>>
                  \o BodiesFrom(lines, BodyEndLine(lines, p) + 1)
         ELSE BodiesFrom(lines, p + 1)

\* the density violation of a body, if it has one
BodyViolation(path, lines, b) ==
    LET asserts == Cardinality({k \in (b.def + 1)..b.end : AssertMatch(lines[k])})
    IN  IF b.end - b.def >= MIN_FUNCTION_BODY_LINES /\ asserts < 2
        THEN <<Violation(path, b.def, RULE_ASSERT_DENSITY,
                         <<lines[b.def].name, asserts, b.end - b.def>>, "warning")>>
        ELSE <<>>

\* C24: the density violations of a file are those of the bodies found by
\* brace matching as described: depth seeded with every brace of the
\* definition line, a body ending on the first later line where the depth
\* returns to zero at some brace, its line count the lines after the
\* definition line up to and including that line, the search for the next
\* definition resumed on the line after it.  The bodies reported neither
\* overlap nor nest.
C24_BodiesByBraceMatching ==
    \A k \in Linted :
        LET r == results[k]
            ls == r.file.lines
            bodies == BodiesFrom(ls, 1)
            tiger == RawOf(r, RULE_ASSERT_DENSITY)
        IN  IsCppSource(r.file.path) /\ argv.rule = NoneFilter =>
                /\ tiger = Flatten([i \in 1..Len(bodies) |->
                                      BodyViolation(r.file.path, ls, bodies[i])])
                /\ \A i \in 1..(Len(tiger) - 1) :
                      tiger[i].line + tiger[i].message[3] < tiger[i + 1].line

\* C24 witness: "void update(int a) {", "{", "x;", "} else {", "}", "}" and a
\* second function of five body lines were linted: two bodies of five
\* lines each are reported, the second starting on the line after the first.
C24_Witness ==
    \E k \in Linted :
        LET r == results[k]
            tiger == RawOf(r, RULE_ASSERT_DENSITY)
        IN  /\ Len(r.file.lines) = 12
            /\ r.file.lines[4].punct = <<"}", "{">>
            /\ Len(tiger) = 2
            /\ tiger[1].line = 1 /\ tiger[1].message[3] = 5
            /\ tiger[2].line = 7 /\ tiger[2].message[3] = 5

\* the outer loop started at 0-based line i leaves the file within fuel
\* iterations
RECURSIVE EndsWithin(_, _, _)
EndsWithin(lines, i, fuel) ==
    IF ~(i < Len(lines)) THEN TRUE
    ELSE IF fuel = 0 THEN FALSE
    ELSE EndsWithin(lines, TigerStep(lines, i), fuel - 1)

\* C25: the density scan ends on every file.  From every line the outer
\* loop moves forward, by one line or to the end of a body, which is at
\* least one line past the definition line and never past the end of the
\* file (the scan of a body reads no line beyond the last); a body whose
\* depth never returns to zero ends with the last line; the loop started
\* at the first line is over within as many iterations as the file has
\* lines, and the violations come in increasing line order inside the file.
C25_ScanTerminates ==
    \A k \in Linted :
        LET r == results[k]
            ls == r.file.lines
            tiger == RawOf(r, RULE_ASSERT_DENSITY)
        IN  IsCppSource(r.file.path) =>
                /\ \A i \in 0..(Len(ls) - 1) :
                      LET depth == DefLineDepth(BraceChars(ls[i + 1]), 0)
                          body_end == FindBodyEnd(ls, i + 1, depth)
                      IN  /\ TigerStep(ls, i) > i
                          /\ TigerStep(ls, i) <= Len(ls)
                          /\ OpensBody(ls[i + 1]) =>
                                /\ i + 1 <= body_end
                                /\ body_end <= Len(ls)
                                /\ TigerStep(ls, i) = body_end
                          /\ (/\ OpensBody(ls[i + 1])
                              /\ \A j \in (i + 2)..Len(ls) : ~ReturnsToZero(ls, i + 1, j))
                                 => body_end = Len(ls)
                /\ EndsWithin(ls, 0, Len(ls))
                /\ \A n \in 1..Len(tiger) :
                      /\ tiger[n].line \in 1..Len(ls)
                      /\ tiger[n].line + tiger[n].message[3] <= Len(ls)
                      /\ n > 1 => tiger[n - 1].line < tiger[n].line

\* C25 witness: a function whose body of five lines is never closed was
\* linted: the body ends with the last line of the file and is reported.
C25_Witness ==
    \E k \in Linted :
        LET r == results[k]
            ls == r.file.lines
            tiger == RawOf(r, RULE_ASSERT_DENSITY)
        IN  /\ Len(ls) = 6
            /\ \A p \in 1..Len(ls) : CountChar(ls[p], "}") = 0
            /\ Len(tiger) = 1
            /\ tiger[1].line = 1 /\ tiger[1].message[3] = 5
            /\ TigerStep(ls, 0) = Len(ls)

====
